---- MODULE Spec2Model ----
(***************************************************************************)
(* Model of the oss-review audit core: the licence audit tool              *)
(* (packages/mcp/tools/licenses.ts), the security audit tool               *)
(* (packages/mcp/tools/security.ts), the advisory helpers and the npm      *)
(* audit provider (packages/advisory/npm.ts), the configuration store      *)
(* (packages/config/index.ts) and the resolver's mergeConfigs.             *)
(*                                                                         *)
(* Strings are sequences of one-character strings, so that trim(),         *)
(* toUpperCase() and toLowerCase() are computed and not assumed.  A        *)
(* missing (undefined) string field and the empty string are both <<>>:    *)
(* the code tests such fields for truthiness, except for the packageName   *)
(* of an ignore rule in mergeIgnoreRules, which is never drawn empty.      *)
(*                                                                         *)
(* The objects the Config holds and hands out live on a heap of arrays,    *)
(* objects and maps addressed by position, so that a copy and an alias     *)
(* are different things.                                                   *)
(***************************************************************************)
EXTENDS Integers, Sequences, FiniteSets, TLC

VARIABLES
    pc,             \* position of the request being served
    licenses,       \* Config.licenses: the three policy buckets
    bom,            \* entries of the SBOM analysis given to analyzeWithPolicy
    failOnUnknown,  \* args.failOnUnknown ?? false
    licenseIndex,   \* the LicensePolicyIndex built by buildLicenseIndex
    analysis,       \* the LicenseAnalysisResult of analyzeWithPolicy
    defaults,       \* context.config.getTool('security'): the configured defaults
    args,           \* the arguments of the security tool call
    scan,           \* what the advisory provider did and reported
    ignoreRules,    \* the rules resolveIgnoreRules returned
    response,       \* the MCP response of the last tool call
    ruleSets,       \* the rule sets handed to mergeIgnoreRules
    child,          \* the npm audit child process once it has closed
    fileOnDisk,     \* the ignore file loadIgnoreRules reads
    fnArgs,         \* the arguments of a function called on its own
    fnResult,       \* what that function returned
    heap,           \* the objects of the Config and of the values it returned
    held            \* the address of the value an accessor returned last

licVars == <<licenses, bom, failOnUnknown, licenseIndex, analysis>>
secVars == <<defaults, args, scan, ignoreRules>>
auxVars == <<ruleSets, child, fileOnDisk, heap, held, fnArgs, fnResult>>
vars == <<pc, licenses, bom, failOnUnknown, licenseIndex, analysis,
          defaults, args, scan, ignoreRules, response, ruleSets, child, fileOnDisk,
          heap, held, fnArgs, fnResult>>

----------------------------------------------------------------------------
(* Bounds of the model *)

\* most entries in one policy bucket (index construction)
MaxEntries == 1
\* most components in one SBOM
MaxComponents == 2
\* most licence tokens on one component
MaxLicenses == 2
\* most advisory ids in one inline ignore list
MaxIds == 1
\* most findings reported by the advisory provider
MaxFindings == 2
\* most ignore rules in one list given to applyIgnoreRules
MaxRules == 2
\* most rule sets given to one call of mergeIgnoreRules
MaxSets == 3
\* most characters npm audit writes to its standard output
MaxStdout == 4
\* most entries in the JSON array of an ignore file
MaxFileEntries == 2
\* most objects on the heap of the Config and its callers
MaxHeap == 17
\* most Config instances given to one call of mergeConfigs
MaxConfigs == 3

----------------------------------------------------------------------------
(* Strings *)

Lower == <<"a", "b", "c", "d", "e", "f", "g", "h", "i", "j", "k", "l", "m",
           "n", "o", "p", "q", "r", "s", "t", "u", "v", "w", "x", "y", "z">>
Upper == <<"A", "B", "C", "D", "E", "F", "G", "H", "I", "J", "K", "L", "M",
           "N", "O", "P", "Q", "R", "S", "T", "U", "V", "W", "X", "Y", "Z">>

\* String.prototype.toUpperCase on one character
UpperChar(c) ==
    IF \E i \in 1..Len(Lower) : Lower[i] = c
    THEN Upper[CHOOSE i \in 1..Len(Lower) : Lower[i] = c]
    ELSE c

\* String.prototype.toLowerCase on one character
LowerChar(c) ==
    IF \E i \in 1..Len(Upper) : Upper[i] = c
    THEN Lower[CHOOSE i \in 1..Len(Upper) : Upper[i] = c]
    ELSE c

toUpperCase(s) == [i \in 1..Len(s) |-> UpperChar(s[i])]

toLowerCase(s) == [i \in 1..Len(s) |-> LowerChar(s[i])]

RECURSIVE trimStart(_)
trimStart(s) ==
    IF s # <<>> /\ Head(s) = " " THEN trimStart(Tail(s)) ELSE s

RECURSIVE trimEnd(_)
trimEnd(s) ==
    IF s # <<>> /\ s[Len(s)] = " " THEN trimEnd(SubSeq(s, 1, Len(s) - 1)) ELSE s

\* String.prototype.trim
trim(s) == trimEnd(trimStart(s))

\* sequences over S of length at most n
SeqUpTo(S, n) == UNION {[1..k -> S] : k \in 0..n}

----------------------------------------------------------------------------
(* Licence policy index *)

normalizeLicenseId(value) == toUpperCase(trim(value))

\* new Map()
EmptyMap == [k \in {} |-> 0]

\* whether Map.prototype.get finds the key (its result is not undefined)
MapHas(map, key) == key \in DOMAIN map

\* Map.prototype.set: a later insertion replaces the earlier mapping
MapSet(map, key, value) ==
    [k \in (DOMAIN map) \cup {key} |-> IF k = key THEN value ELSE map[k]]

\* the body of the for loop of buildLicenseIndex for one category
RECURSIVE IndexBucket(_, _, _)
IndexBucket(map, category, list) ==
    IF list = <<>> THEN map
    ELSE LET entry == Head(list)
             value == [category |-> category, source |-> entry]
             byId == MapSet(map, normalizeLicenseId(entry.id), value)
             byName == IF entry.name # <<>>
                       THEN MapSet(byId, normalizeLicenseId(entry.name), value)
                       ELSE byId
         IN  IndexBucket(IF entry.id = <<>> THEN map ELSE byName, category, Tail(list))

\* buildLicenseIndex with the buckets walked in the opposite order
buildLicenseIndexReversed(entries) ==
    IndexBucket(IndexBucket(IndexBucket(EmptyMap, "red", entries.red),
                            "yellow", entries.yellow),
                "green", entries.green)

buildLicenseIndex(entries) ==
    IndexBucket(IndexBucket(IndexBucket(EmptyMap, "green", entries.green),
                            "yellow", entries.yellow),
                "red", entries.red)

----------------------------------------------------------------------------
(* Classification engine *)

\* the result object analyzeWithPolicy starts from
EmptyAnalysis ==
    [components |-> <<>>,
     counts |-> [total |-> 0, withLicenses |-> 0, green |-> 0, yellow |-> 0,
                 red |-> 0, unknown |-> 0, unlicensed |-> 0],
     red |-> <<>>, yellow |-> <<>>, unknown |-> <<>>, unlicensed |-> <<>>,
     failReasons |-> <<>>]

\* the locals of one iteration of the outer loop; failReason "" is undefined
ScanStart ==
    [classification |-> "green", failReason |-> "", hasGreen |-> FALSE,
     hasUnknown |-> FALSE, matchedLicences |-> <<>>]

\* ScanToken that lets the first token found in the policy decide
ScanTokenFirstMatchWins(st, license, index) ==
    IF ~MapHas(index, license)
    THEN [st |-> [st EXCEPT !.hasUnknown = TRUE,
                            !.matchedLicences =
                                Append(@, [license |-> license, category |-> "unknown"])],
          break |-> FALSE]
    ELSE [st |-> [st EXCEPT !.matchedLicences =
                                Append(@, [license |-> license,
                                           category |-> index[license].category]),
                            !.classification = index[license].category,
                            !.hasGreen = (index[license].category = "green"),
                            !.failReason =
                                IF index[license].category = "red"
                                THEN "Detected prohibited license."
                                ELSE IF index[license].category = "yellow"
                                     THEN "Detected conditionally approved license."
                                     ELSE ""],
          break |-> TRUE]

\* ScanToken that forgets to record an approved match
ScanTokenNoHasGreen(st, license, index) ==
    IF ~MapHas(index, license)
    THEN [st |-> [st EXCEPT !.hasUnknown = TRUE,
                            !.matchedLicences =
                                Append(@, [license |-> license, category |-> "unknown"])],
          break |-> FALSE]
    ELSE LET lookup == index[license]
             pushed == [st EXCEPT !.matchedLicences =
                           Append(@, [license |-> license, category |-> lookup.category])]
         IN  IF lookup.category = "red"
             THEN [st |-> [pushed EXCEPT !.classification = "red",
                                         !.failReason = "Detected prohibited license."],
                   break |-> TRUE]
             ELSE [st |-> IF lookup.category = "yellow" /\ pushed.classification # "red"
                          THEN [pushed EXCEPT !.classification = "yellow",
                                   !.failReason = "Detected conditionally approved license."]
                          ELSE pushed,
                   break |-> FALSE]

\* the body of the inner loop for one normalized licence: the locals after
\* it, and whether the loop is left (break) or goes on (continue, fall through)
ScanToken(st, license, index) ==
    IF ~MapHas(index, license)
    THEN [st |-> [st EXCEPT !.hasUnknown = TRUE,
                            !.matchedLicences =
                                Append(@, [license |-> license, category |-> "unknown"])],
          break |-> FALSE]
    ELSE LET lookup == index[license]
             pushed == [st EXCEPT !.matchedLicences =
                           Append(@, [license |-> license, category |-> lookup.category])]
         IN  IF lookup.category = "red"
             THEN [st |-> [pushed EXCEPT !.classification = "red",
                                         !.failReason = "Detected prohibited license."],
                   break |-> TRUE]
             ELSE LET yellowed ==
                          IF lookup.category = "yellow" /\ pushed.classification # "red"
                          THEN [pushed EXCEPT !.classification = "yellow",
                                   !.failReason = "Detected conditionally approved license."]
                          ELSE pushed
                  IN  [st |-> IF lookup.category = "green"
                              THEN [yellowed EXCEPT !.hasGreen = TRUE]
                              ELSE yellowed,
                       break |-> FALSE]

\* the inner loop over the normalized licences of one component
RECURSIVE ScanLicenses(_, _, _)
ScanLicenses(st, tokens, index) ==
    IF tokens = <<>> THEN st
    ELSE LET step == ScanToken(st, Head(tokens), index)
         IN  IF step.break THEN step.st ELSE ScanLicenses(step.st, Tail(tokens), index)

\* AfterScan in which an unmatched token outranks an approved one
AfterScanUnknownFirst(st, options) ==
    LET settled == IF st.classification = "green" /\ st.hasUnknown
                   THEN [st EXCEPT !.classification = "unknown"]
                   ELSE st
    IN  IF settled.classification = "unknown" /\ options.failOnUnknown
        THEN [settled EXCEPT !.failReason = "Encountered license not defined in policy."]
        ELSE settled

\* AfterScan that keeps the initial classification
AfterScanNoDowngrade(st, options) ==
    IF st.classification = "unknown" /\ options.failOnUnknown
    THEN [st EXCEPT !.failReason = "Encountered license not defined in policy."]
    ELSE st

\* AfterScan that reports unknown components whatever failOnUnknown says
AfterScanAlwaysFails(st, options) ==
    LET settled == IF st.classification = "green" /\ ~st.hasGreen
                   THEN [st EXCEPT !.classification =
                                       IF st.hasUnknown THEN "unknown" ELSE "green"]
                   ELSE st
    IN  IF settled.classification = "unknown"
        THEN [settled EXCEPT !.failReason = "Encountered license not defined in policy."]
        ELSE settled

\* the two statements after the inner loop
AfterScan(st, options) ==
    LET settled == IF st.classification = "green" /\ ~st.hasGreen
                   THEN [st EXCEPT !.classification =
                                       IF st.hasUnknown THEN "unknown" ELSE "green"]
                   ELSE st
    IN  IF settled.classification = "unknown" /\ options.failOnUnknown
        THEN [settled EXCEPT !.failReason = "Encountered license not defined in policy."]
        ELSE settled

\* the inner loop and the statements after it, run on a component's licences
\* without asking whether there are any
ScanComponent(normalizedLicenses, index, options) ==
    LET st == ScanLicenses(ScanStart, normalizedLicenses, index)
        settled == IF st.classification = "green" /\ ~st.hasGreen
                   THEN [st EXCEPT !.classification =
                                       IF st.hasUnknown THEN "unknown" ELSE "green"]
                   ELSE st
    IN  IF settled.classification = "unknown" /\ options.failOnUnknown
        THEN [settled EXCEPT !.failReason = "Encountered license not defined in policy."]
        ELSE settled

\* ClassifyEntry without the branch for components that carry no licence
ClassifyEntryNoEmptyCheck(entry, index, options) ==
    ScanComponent([i \in 1..Len(entry.licenses) |-> normalizeLicenseId(entry.licenses[i])],
                  index, options)

\* one iteration of the outer loop up to the report: the locals after the
\* classification of one SBOM entry
ClassifyEntry(entry, index, options) ==
    LET normalizedLicenses ==
            [i \in 1..Len(entry.licenses) |-> normalizeLicenseId(entry.licenses[i])]
    IN  IF Len(normalizedLicenses) = 0
        THEN [ScanStart EXCEPT !.classification = "unlicensed",
                               !.failReason = IF options.failOnUnknown
                                              THEN "Missing license information."
                                              ELSE ""]
        ELSE AfterScan(ScanLicenses(ScanStart, normalizedLicenses, index), options)

\* the ComponentReport of one SBOM entry
ReportOf(entry, st) ==
    [ref |-> entry.key, licenses |-> entry.licenses,
     classification |-> st.classification, matchedLicences |-> st.matchedLicences]

\* updateCounts that counts the component and does nothing else
updateCountsTotalOnly(result, component, failReason) ==
    [result EXCEPT !.counts.total = @ + 1]

updateCounts(result, component, failReason) ==
    LET c == component.classification
        counted == [result EXCEPT
            !.counts.total = @ + 1,
            !.counts.withLicenses = IF Len(component.licenses) # 0 THEN @ + 1 ELSE @,
            !.counts.red = IF c = "red" THEN @ + 1 ELSE @,
            !.red = IF c = "red" THEN Append(@, component) ELSE @,
            !.counts.yellow = IF c = "yellow" THEN @ + 1 ELSE @,
            !.yellow = IF c = "yellow" THEN Append(@, component) ELSE @,
            !.counts.green = IF c = "green" THEN @ + 1 ELSE @,
            !.counts.unknown = IF c = "unknown" THEN @ + 1 ELSE @,
            !.unknown = IF c = "unknown" THEN Append(@, component) ELSE @,
            !.counts.unlicensed = IF c = "unlicensed" THEN @ + 1 ELSE @,
            !.unlicensed = IF c = "unlicensed" THEN Append(@, component) ELSE @]
    IN  IF failReason.reason # ""
        THEN [counted EXCEPT !.failReasons = Append(@, failReason)]
        ELSE counted

\* the outer loop of analyzeWithPolicy over the remaining entries
RECURSIVE AnalyzeEntries(_, _, _, _)
AnalyzeEntries(result, entries, index, options) ==
    IF entries = <<>> THEN result
    ELSE LET entry == Head(entries)
             st == ClassifyEntry(entry, index, options)
             report == ReportOf(entry, st)
             pushed == [result EXCEPT !.components = Append(@, report)]
         IN  AnalyzeEntries(
                 updateCounts(pushed, report, [key |-> entry.key, reason |-> st.failReason]),
                 Tail(entries), index, options)

analyzeWithPolicy(entries, index, options) ==
    AnalyzeEntries(EmptyAnalysis, entries, index, options)

\* a verdict that also fails the audit on conditional components
LicenseVerdictStrict(result, failOnUnknownArg) ==
    /\ result.counts.red = 0
    /\ result.counts.yellow = 0
    /\ (~failOnUnknownArg \/ (result.counts.unknown = 0 /\ result.counts.unlicensed = 0))

\* const ok = ... in licenses.exec
LicenseVerdict(result, failOnUnknownArg) ==
    /\ result.counts.red = 0
    /\ (~failOnUnknownArg \/ (result.counts.unknown = 0 /\ result.counts.unlicensed = 0))

----------------------------------------------------------------------------
(* Advisory helpers *)

\* weights under which unknown weighs as much as info
SeverityWeightsUnknownAsInfo ==
    [critical |-> 5, high |-> 4, medium |-> 3, low |-> 2, info |-> 1, unknown |-> 1]

SEVERITY_WEIGHTS ==
    [critical |-> 5, high |-> 4, medium |-> 3, low |-> 2, info |-> 1, unknown |-> 0]

\* meetsSeverityThreshold that asks for the very severity of the threshold
meetsSeverityThresholdExactly(severity, threshold) == severity = threshold

\* meetsSeverityThreshold with > for >=
meetsSeverityThresholdStrictly(severity, threshold) ==
    /\ severity \in DOMAIN SEVERITY_WEIGHTS
    /\ threshold \in DOMAIN SEVERITY_WEIGHTS
    /\ SEVERITY_WEIGHTS[severity] > SEVERITY_WEIGHTS[threshold]

\* a weight that is undefined (a threshold outside the table) compares false
meetsSeverityThreshold(severity, threshold) ==
    /\ severity \in DOMAIN SEVERITY_WEIGHTS
    /\ threshold \in DOMAIN SEVERITY_WEIGHTS
    /\ SEVERITY_WEIGHTS[severity] >= SEVERITY_WEIGHTS[threshold]

\* the severities and their aliases as texts
Spelled ==
    [critical |-> <<"c", "r", "i", "t", "i", "c", "a", "l">>,
     high |-> <<"h", "i", "g", "h">>,
     medium |-> <<"m", "e", "d", "i", "u", "m">>,
     low |-> <<"l", "o", "w">>,
     info |-> <<"i", "n", "f", "o">>,
     unknown |-> <<"u", "n", "k", "n", "o", "w", "n">>,
     moderate |-> <<"m", "o", "d", "e", "r", "a", "t", "e">>,
     informational |-> <<"i", "n", "f", "o", "r", "m", "a", "t", "i", "o", "n", "a", "l">>,
     constructor |-> <<"c", "o", "n", "s", "t", "r", "u", "c", "t", "o", "r">>]

\* the names for which `value in SEVERITY_WEIGHTS` holds: the keys of the
\* table and, of those Object.prototype adds, the one spelled here
InSeverityWeights == DOMAIN SEVERITY_WEIGHTS \cup {"constructor"}

normaliseSeverity(severity) ==
    IF severity = <<>> THEN "unknown"
    ELSE LET value == toLowerCase(severity)
         IN  IF \E name \in InSeverityWeights : Spelled[name] = value
             THEN CHOOSE name \in InSeverityWeights : Spelled[name] = value
             ELSE IF value = Spelled["moderate"] THEN "medium"
             ELSE IF value = Spelled["informational"] THEN "info"
             ELSE "unknown"

createEmptySummary ==
    [total |-> 0, critical |-> 0, high |-> 0, medium |-> 0, low |-> 0, info |-> 0,
     unknown |-> 0]

\* the loop of summariseFindings
RECURSIVE SummariseFrom(_, _)
SummariseFrom(summary, findings) ==
    IF findings = <<>> THEN summary
    ELSE LET severity == Head(findings).severity
             bucket == IF severity \in {"critical", "high", "medium", "low", "info"}
                       THEN severity ELSE "unknown"
         IN  SummariseFrom([summary EXCEPT ![bucket] = @ + 1], Tail(findings))

\* summariseFindings that leaves the total at zero
summariseFindingsWithoutTotal(findings) == SummariseFrom(createEmptySummary, findings)

summariseFindings(findings) ==
    SummariseFrom([createEmptySummary EXCEPT !.total = Len(findings)], findings)

\* Date.now()
Now == 2

\* new Date(text).getTime(): the two timestamps the rules use, NaN otherwise
DateTime(text) ==
    IF text = <<"2", "0", "2", "0">> THEN [finite |-> TRUE, time |-> 1]
    ELSE IF text = <<"2", "9", "9", "9">> THEN [finite |-> TRUE, time |-> 3]
    ELSE [finite |-> FALSE, time |-> 0]

\* rules.map(trim the fields).filter(rule => Boolean(rule.id))
NormaliseRules(rules) ==
    SelectSeq([i \in 1..Len(rules) |->
                  [id |-> trim(rules[i].id), packageName |-> trim(rules[i].packageName),
                   expiresAt |-> trim(rules[i].expiresAt), reason |-> trim(rules[i].reason)]],
              LAMBDA rule : rule.id # <<>>)

\* RuleMatches that compares the advisory ids only
RuleMatchesIdOnly(candidate, finding) ==
    toUpperCase(candidate.id) = toUpperCase(finding.id)

\* the predicate of normalisedRules.find
RuleMatches(candidate, finding) ==
    /\ toUpperCase(candidate.id) = toUpperCase(finding.id)
    /\ \/ candidate.packageName = <<>>
       \/ toLowerCase(candidate.packageName) = toLowerCase(finding.packageName)

\* Expired that takes any rule with an expiry for expired
ExpiredWhateverTheDate(rule) == rule.expiresAt # <<>>

\* whether the rule found for a finding has a parseable expiry in the past
Expired(rule) ==
    /\ rule.expiresAt # <<>>
    /\ DateTime(rule.expiresAt).finite
    /\ DateTime(rule.expiresAt).time < Now

\* the loop of applyIgnoreRules over the remaining findings
RECURSIVE ApplyFrom(_, _, _)
ApplyFrom(acc, findings, normalisedRules) ==
    IF findings = <<>> THEN acc
    ELSE LET finding == Head(findings)
             hits == {n \in 1..Len(normalisedRules) : RuleMatches(normalisedRules[n], finding)}
             rule == normalisedRules[CHOOSE n \in hits : \A m \in hits : n <= m]
             next ==
                 IF hits = {}
                 THEN [acc EXCEPT !.findings = Append(@, finding)]
                 ELSE IF Expired(rule)
                      THEN [acc EXCEPT
                               !.warnings = Append(@, [id |-> finding.id,
                                                       packageName |-> finding.packageName,
                                                       expired |-> rule.expiresAt]),
                               !.findings = Append(@, finding)]
                      ELSE [acc EXCEPT !.ignored = Append(@, finding)]
         IN  ApplyFrom(next, Tail(findings), normalisedRules)

\* applyIgnoreRules that searches the rules from the end of the list
applyIgnoreRulesLastRuleFirst(findings, rules) ==
    ApplyFrom([findings |-> <<>>, ignored |-> <<>>, warnings |-> <<>>], findings,
              NormaliseRules([n \in 1..Len(rules) |-> rules[Len(rules) + 1 - n]]))

\* applyIgnoreRules that returns no ignored findings
applyIgnoreRulesDroppingIgnored(findings, rules) ==
    [ApplyFrom([findings |-> <<>>, ignored |-> <<>>, warnings |-> <<>>], findings,
               NormaliseRules(rules)) EXCEPT !.ignored = <<>>]

applyIgnoreRules(findings, rules) ==
    IF rules = <<>>
    THEN [findings |-> findings, ignored |-> <<>>, warnings |-> <<>>]
    ELSE ApplyFrom([findings |-> <<>>, ignored |-> <<>>, warnings |-> <<>>],
                   findings, NormaliseRules(rules))

\* the ignore files on disk: config.json and runtime.json hold JSON arrays of
\* rule objects, any other path does not exist (ENOENT)
IgnoreFiles ==
    [p \in {"config.json", "runtime.json"} |->
        IF p = "config.json"
        THEN << [id |-> <<"G", "1">>, packageName |-> <<>>, expiresAt |-> <<>>,
                 reason |-> <<"c">>],
                [id |-> <<"g", "2">>, packageName |-> <<"L", "P">>,
                 expiresAt |-> <<"2", "9", "9", "9">>, reason |-> <<>>] >>
        ELSE << [id |-> <<"g", "1">>, packageName |-> <<>>,
                 expiresAt |-> <<" ", "2", "0", "2", "0">>, reason |-> <<"r">>],
                [id |-> <<" ">>, packageName |-> <<"u">>, expiresAt |-> <<>>,
                 reason |-> <<>>],
                [id |-> <<"g", "2">>, packageName |-> <<"l", "p", " ">>,
                 expiresAt |-> <<"?">>, reason |-> <<>>] >>]

\* JSON values: strings, objects by their members, and the values that are
\* neither
JString(text) == [t |-> "string", s |-> text]
JObject(fields) == [t |-> "object", fields |-> fields]
JNull == [t |-> "null"]
JNumber == [t |-> "number"]
JArray(items) == [t |-> "array", items |-> items]

\* the JSON object that spells a rule: a member for each field that is there
JsonRule(rule) ==
    JObject([name \in {n \in {"id", "packageName", "expiresAt", "reason"} : rule[n] # <<>>}
                |-> JString(rule[name])])

\* what is at the path: nothing (ENOENT), something that cannot be read
\* (EACCES, EISDIR), text that is not JSON, or a JSON value
Missing == [kind |-> "missing"]
Unreadable == [kind |-> "unreadable"]
NotJson == [kind |-> "invalid"]
Json(data) == [kind |-> "json", data |-> data]

\* the file at a path of the security audit's disk
FileAt(filePath) ==
    IF filePath \in DOMAIN IgnoreFiles
    THEN Json(JArray([n \in 1..Len(IgnoreFiles[filePath]) |->
                         JsonRule(IgnoreFiles[filePath][n])]))
    ELSE Missing

\* typeof entry[name] === 'string' ? entry[name].trim() : ''
TrimmedMember(entry, name) ==
    IF name \in DOMAIN entry.fields /\ entry.fields[name].t = "string"
    THEN trim(entry.fields[name].s)
    ELSE <<>>

\* the loop of loadIgnoreRules over the entries of the JSON array: an entry
\* that is no object or has no id is dropped, the optional fields are kept
\* trimmed when they are strings and not blank
RECURSIVE RulesFrom(_)
RulesFrom(data) ==
    IF data = <<>> THEN <<>>
    ELSE LET entry == Head(data)
         IN  IF entry.t # "object" THEN RulesFrom(Tail(data))
             ELSE IF TrimmedMember(entry, "id") = <<>> THEN RulesFrom(Tail(data))
             ELSE << [id |-> TrimmedMember(entry, "id"),
                      packageName |-> TrimmedMember(entry, "packageName"),
                      expiresAt |-> TrimmedMember(entry, "expiresAt"),
                      reason |-> TrimmedMember(entry, "reason")] >>
                  \o RulesFrom(Tail(data))

\* path.resolve: an absolute path stays, a relative one goes under the
\* working directory
resolve(filePath) ==
    IF filePath \in {"/etc/ignore.json"} THEN <<filePath>> ELSE <<"/cwd", filePath>>

\* loadIgnoreRules returned these rules
Loaded(rules) == [kind |-> "rules", rules |-> rules]

\* loadIgnoreRules threw `Failed to read advisory ignore file at ${resolved}: ...`
LoadFailed(resolved, detail) ==
    [kind |-> "throws", rules |-> <<>>,
     message |-> [prefix |-> "Failed to read advisory ignore file at",
                  path |-> resolved, detail |-> detail]]

\* ReadIgnoreFile that takes a missing file for a failure like any other
ReadIgnoreFileStrict(resolved, content) ==
    IF content.kind = "missing" THEN LoadFailed(resolved, "ENOENT")
    ELSE IF content.kind = "unreadable" THEN LoadFailed(resolved, "EACCES")
    ELSE IF content.kind = "invalid" THEN LoadFailed(resolved, "Unexpected token")
    ELSE IF content.data.t # "array" THEN Loaded(<<>>)
    ELSE Loaded(RulesFrom(content.data.items))

\* the try block of loadIgnoreRules and its catch clause, by what is at the
\* resolved path
ReadIgnoreFile(resolved, content) ==
    IF content.kind = "missing" THEN Loaded(<<>>)
    ELSE IF content.kind = "unreadable" THEN LoadFailed(resolved, "EACCES")
    ELSE IF content.kind = "invalid" THEN LoadFailed(resolved, "Unexpected token")
    ELSE IF content.data.t # "array" THEN Loaded(<<>>)
    ELSE Loaded(RulesFrom(content.data.items))

\* loadIgnoreRules on the disk of the security audit, where every file that
\* is there holds a JSON array: the rules it returns
loadIgnoreRules(filePath) == ReadIgnoreFile(resolve(filePath), FileAt(filePath)).rules

\* `${entry.id.toUpperCase()}::${entry.packageName?.toLowerCase() ?? '*'}`
MergeKey(entry) ==
    toUpperCase(entry.id) \o <<":", ":">>
        \o (IF entry.packageName = <<>> THEN <<"*">> ELSE toLowerCase(entry.packageName))

\* OrderedSet that leaves the value of a key that is present alone
OrderedSetKeepFirst(map, key, value) ==
    IF \E n \in 1..Len(map) : map[n].key = key THEN map
    ELSE Append(map, [key |-> key, value |-> value])

\* Map.prototype.set on a Map kept in insertion order: a key that is present
\* keeps its place and takes the new value
OrderedSet(map, key, value) ==
    IF \E n \in 1..Len(map) : map[n].key = key
    THEN [n \in 1..Len(map) |-> IF map[n].key = key THEN [key |-> key, value |-> value]
                                ELSE map[n]]
    ELSE Append(map, [key |-> key, value |-> value])

\* the inner loop of mergeIgnoreRules
RECURSIVE MergeList(_, _)
MergeList(map, list) ==
    IF list = <<>> THEN map
    ELSE LET entry == Head(list)
         IN  MergeList(IF entry.id = <<>> THEN map
                       ELSE OrderedSet(map, MergeKey(entry), entry),
                       Tail(list))

\* the outer loop of mergeIgnoreRules
RECURSIVE MergeSets(_, _)
MergeSets(map, sets) ==
    IF sets = <<>> THEN map ELSE MergeSets(MergeList(map, Head(sets)), Tail(sets))

\* mergeIgnoreRules(...sets): Array.from(map.values())
mergeIgnoreRules(sets) ==
    LET map == MergeSets(<<>>, sets) IN [n \in 1..Len(map) |-> map[n].value]

----------------------------------------------------------------------------
(* The security audit tool *)

DEFAULT_THRESHOLD == "high"

\* forEach(entry => { if (entry.trim()) inlineIds.push(entry.trim()) })
TrimmedIds(ids) ==
    SelectSeq([i \in 1..Len(ids) |-> trim(ids[i])], LAMBDA id : id # <<>>)

InlineRule(id) == [id |-> id, packageName |-> <<>>, expiresAt |-> <<>>, reason |-> <<>>]

\* the rule sets a file path contributes: none when no path is configured
FileSets(path) == IF path = "" THEN <<>> ELSE <<loadIgnoreRules(path)>>

\* the inline ids as one rule set; pushed only when there are any
InlineSets(inlineIds) ==
    IF inlineIds = <<>> THEN <<>>
    ELSE << [i \in 1..Len(inlineIds) |-> InlineRule(inlineIds[i])] >>

\* resolveIgnoreRules with the rule sets in the order config ids, config
\* files, runtime file, runtime ids
resolveIgnoreRulesRuntimeLast(options) ==
    mergeIgnoreRules(
        InlineSets(TrimmedIds(options.configIgnore.ids) \o TrimmedIds(options.configIgnoreIds))
        \o FileSets(options.configIgnore.file)
        \o FileSets(options.configIgnoreFile)
        \o FileSets(options.runtimeFile)
        \o InlineSets(TrimmedIds(options.runtimeIds)))

\* the rule sets are pushed in the order config ignore.file, config
\* ignoreFile, runtime file, and last one set holding every inline id
resolveIgnoreRules(options) ==
    LET inlineIds == TrimmedIds(options.configIgnore.ids)
                     \o TrimmedIds(options.configIgnoreIds)
                     \o TrimmedIds(options.runtimeIds)
    IN  mergeIgnoreRules(
            FileSets(options.configIgnore.file)
            \o FileSets(options.configIgnoreFile)
            \o FileSets(options.runtimeFile)
            \o InlineSets(inlineIds))

\* the fail reason pushed for a finding that meets the threshold
FailReason(finding, severityThreshold) ==
    [packageName |-> finding.packageName, id |-> finding.id,
     severity |-> finding.severity, threshold |-> severityThreshold]

\* the forEach over the surviving findings
RECURSIVE FailReasonsOf(_, _)
FailReasonsOf(filteredFindings, severityThreshold) ==
    IF filteredFindings = <<>> THEN <<>>
    ELSE (IF meetsSeverityThreshold(Head(filteredFindings).severity, severityThreshold)
          THEN <<FailReason(Head(filteredFindings), severityThreshold)>>
          ELSE <<>>)
         \o FailReasonsOf(Tail(filteredFindings), severityThreshold)

\* an audit that counts and judges the findings before the ignore rules
AuditFindingsUnfiltered(findings, rules, severityThreshold) ==
    LET applied == applyIgnoreRules(findings, rules)
        failReasons == FailReasonsOf(findings, severityThreshold)
    IN  [ok |-> failReasons = <<>>,
         counts |-> summariseFindings(findings),
         findings |-> applied.findings,
         ignored |-> applied.ignored,
         warnings |-> applied.warnings,
         failReasons |-> failReasons]

\* security.exec from applyIgnoreRules to ok: the part of the structured
\* content that depends on the findings
AuditFindings(findings, rules, severityThreshold) ==
    LET applied == applyIgnoreRules(findings, rules)
        failReasons == FailReasonsOf(applied.findings, severityThreshold)
    IN  [ok |-> failReasons = <<>>,
         counts |-> summariseFindings(applied.findings),
         findings |-> applied.findings,
         ignored |-> applied.ignored,
         warnings |-> applied.warnings,
         failReasons |-> failReasons]

----------------------------------------------------------------------------
(* Inputs of the licence audit *)

NoText == <<>>
MIT == <<"M", "I", "T">>
MitPadded == <<" ", "m", "i", "t">>
GPL == <<"G", "P", "L">>
GplPadded == <<"g", "p", "l", " ">>
XYZ == <<"X", "Y", "Z">>

\* policy entries: by id, by id and display name, and one without id (which
\* buildLicenseIndex skips)
Id(text) == [id |-> text, name |-> NoText]
LicenseEntries ==
    { Id(MIT), Id(GPL),
      [id |-> MitPadded, name |-> GplPadded],
      [id |-> GPL, name |-> MIT],
      [id |-> NoText, name |-> MIT] }

\* every policy with at most MaxEntries entries in each bucket
Policies ==
    [green : SeqUpTo(LicenseEntries, MaxEntries),
     yellow : SeqUpTo(LicenseEntries, MaxEntries),
     red : SeqUpTo(LicenseEntries, MaxEntries)]

Policy(g, y, r) == [green |-> g, yellow |-> y, red |-> r]

\* the policies the audits run under: the empty policy, and policies that
\* put the two licences of the SBOMs in each pairing of buckets
AuditPolicies ==
    { Policy(<<>>, <<>>, <<>>),
      Policy(<<Id(MIT)>>, <<>>, <<Id(GPL)>>),
      Policy(<<Id(MitPadded)>>, <<Id(GPL)>>, <<>>),
      Policy(<<>>, <<Id(MIT)>>, <<Id(GplPadded)>>),
      Policy(<<Id(MIT), Id(GPL)>>, <<>>, <<>>),
      Policy(<<Id(MIT)>>, <<Id(XYZ)>>, <<>>),
      Policy(<<[id |-> GPL, name |-> MIT]>>, <<>>, <<Id(MIT), Id(NoText)>>),
      Policy(<<>>, <<[id |-> XYZ, name |-> GPL]>>, <<>>),
      Policy(<<>>, <<>>, <<Id(MIT)>>),
      Policy(<<Id(GPL)>>, <<Id(GPL), Id(MIT)>>, <<>>) }

\* licence identifiers as the SBOM spells them
LicenseTexts == {MitPadded, GPL}
LicenseLists == SeqUpTo(LicenseTexts, MaxLicenses)

\* the entries of an SBOM analysis: one per component, keyed by position
Boms ==
    UNION {{[i \in 1..n |-> [key |-> i, licenses |-> ls[i]]] : ls \in [1..n -> LicenseLists]}
           : n \in 0..MaxComponents}

----------------------------------------------------------------------------
(* Inputs of the security audit *)

Adv1 == <<"g", "1">>
Adv1Padded == <<" ", "g", "1">>
Adv2 == <<"g", "2">>
PkgLeft == <<"l", "p">>
PkgUuid == <<"u">>

\* advisory ids as written in inline ignore lists
InlineIds == {Adv1Padded, Adv2}
IdLists == SeqUpTo(InlineIds, MaxIds)

\* paths of ignore files: none, the two files on disk, a file that is missing
IgnorePaths == {"", "config.json", "runtime.json", "missing.json"}

\* the ignore settings the Config may hold for the security tool
IgnoreDefaults ==
    [ignore : [ids : IdLists, file : IgnorePaths],
     ignoreIds : IdLists, ignoreFile : IgnorePaths,
     severityThreshold : {""}, failOnUnscanned : {"absent"}]

SecurityDefault(ids, file, ignoreIdsArg, ignoreFileArg, threshold, unscanned) ==
    [ignore |-> [ids |-> ids, file |-> file], ignoreIds |-> ignoreIdsArg,
     ignoreFile |-> ignoreFileArg, severityThreshold |-> threshold,
     failOnUnscanned |-> unscanned]

NoDefaults == SecurityDefault(<<>>, "", <<>>, "", "", "absent")

\* the configurations the security audits run under
SecurityDefaults ==
    { NoDefaults,
      SecurityDefault(<<>>, "", <<Adv1>>, "", "medium", "absent"),
      SecurityDefault(<<Adv2>>, "config.json", <<>>, "", "", "absent"),
      SecurityDefault(<<>>, "", <<>>, "runtime.json", "critical", "true") }

Thresholds == {"critical", "high", "medium", "low", "info"}

\* the arguments of a call: "" and "absent" stand for an argument left out
SecurityArgs ==
    [ignoreIds : SeqUpTo({Adv1Padded}, MaxIds), ignoreFile : {"", "runtime.json"},
     severityThreshold : Thresholds \cup {""},
     failOnUnscanned : {"absent", "true", "false"}]

NoArgs == [ignoreIds |-> <<>>, ignoreFile |-> "", severityThreshold |-> "",
           failOnUnscanned |-> "absent"]

Finding(id, packageName, severity) ==
    [id |-> id, packageName |-> packageName, severity |-> severity]

Findings ==
    { Finding(Adv1, PkgLeft, "critical"),
      Finding(<<"G", "1">>, PkgUuid, "low"),
      Finding(Adv2, <<"L", "P">>, "high"),
      Finding(Adv2, PkgUuid, "unknown") }

Rule(id, packageName, expiresAt, reason) ==
    [id |-> id, packageName |-> packageName, expiresAt |-> expiresAt, reason |-> reason]

\* ignore rules as a caller of applyIgnoreRules may pass them: padded, in
\* either case, with an expiry that is past, to come, or not a date, and
\* one with a blank id
IgnoreRuleInputs ==
    { Rule(Adv1Padded, <<>>, <<"2", "0", "2", "0", " ">>, <<"r">>),
      Rule(<<"G", "1">>, <<" ", "U">>, <<>>, <<>>),
      Rule(<<"G", "2">>, PkgLeft, <<"2", "9", "9", "9">>, <<>>),
      Rule(Adv2, <<>>, <<"?">>, <<>>),
      Rule(Adv2, PkgUuid, <<"2", "0", "2", "0">>, <<>>),
      Rule(<<" ">>, PkgLeft, <<>>, <<>>) }

RuleLists == SeqUpTo(IgnoreRuleInputs, MaxRules)

\* entries of the JSON array of an ignore file: values that are no objects,
\* objects without id or with an id that is no string or blank, and rules
\* with padded, blank and mistyped fields
FileEntries ==
    { JNull, JNumber, JString(Adv1),
      JObject([name \in {"reason"} |-> JString(<<"r">>)]),
      JObject([name \in {"id"} |-> JNumber]),
      JObject([name \in {"id", "packageName"} |->
                  IF name = "id" THEN JString(<<" ">>) ELSE JString(PkgLeft)]),
      JsonRule(Rule(<<" ", "g", "1", " ">>, <<" ", "l", "p">>, <<"2", "0", "2", "0", " ">>,
                    <<" ">>)),
      JObject([name \in {"id", "packageName"} |->
                  IF name = "id" THEN JString(<<"G", "2">>) ELSE JNumber]) }

\* what may be at the path given to loadIgnoreRules
FileContents ==
    {Missing, Unreadable, NotJson, Json(JNull), Json(JsonRule(Rule(Adv1, <<>>, <<>>, <<>>)))}
    \cup {Json(JArray(items)) : items \in SeqUpTo(FileEntries, MaxFileEntries)}

\* a relative and an absolute path
LoadPaths == {"ignore.json", "/etc/ignore.json"}

\* rule sets as a caller of mergeIgnoreRules may pass them: the same advisory
\* in either case and with different fields, the same key twice in one set,
\* an entry without id, a padded id
RuleSetInputs ==
    { << Rule(Adv1, <<>>, <<>>, <<>>) >>,
      << Rule(<<"G", "1">>, <<>>, <<"2", "9", "9", "9">>, <<"r">>) >>,
      << Rule(Adv1, <<"L", "P">>, <<>>, <<>>), Rule(<<"G", "1">>, PkgLeft, <<>>, <<"r">>) >>,
      << Rule(<<>>, PkgLeft, <<>>, <<"c">>), Rule(Adv1Padded, <<>>, <<>>, <<>>) >>,
      << Rule(Adv2, <<>>, <<>>, <<>>), Rule(Adv1, <<>>, <<"2", "0", "2", "0">>, <<>>) >> }

\* a provider run that returned: result.findings and result.warnings
Returned(findings, warnings) ==
    [kind |-> "ok", findings |-> findings, warnings |-> warnings, message |-> ""]

\* a provider run that threw an Error with the given message
Threw(message) ==
    [kind |-> "throws", findings |-> <<>>, warnings |-> <<>>, message |-> message]

\* 'npm-audit' is not among the scanners: the provider is not run
NoScan == [kind |-> "skipped", findings |-> <<>>, warnings |-> <<>>, message |-> ""]

\* what the provider did: it reported findings (once with a warning from
\* stderr), it threw, or it was not run
ScanOutcomes ==
    {Returned(fs, <<>>) : fs \in SeqUpTo(Findings, MaxFindings)}
    \cup {Returned(<<>>, <<"stderr">>), Threw("npm audit failed"), NoScan}

----------------------------------------------------------------------------
(* Responses *)

NoResponse == [tool |-> "none", isError |-> FALSE, text |-> ""]

\* an error-flagged response carries the message and no structured content
ErrorResponse(tool, text) == [tool |-> tool, isError |-> TRUE, text |-> text]

----------------------------------------------------------------------------
(* The npm audit provider *)

\* the members of the advisories object npm audit may print, by the
\* character that stands for them in the output: the key of the member and
\* the advisory it holds
AdvisoryMembers ==
    [A |-> [key |-> 2,
            advisory |-> [id |-> Adv1, module_name |-> PkgLeft,
                          severity |-> <<"H", "i", "g", "h">>]],
     B |-> [key |-> 1,
            advisory |-> [id |-> Adv2, module_name |-> PkgUuid,
                          severity |-> <<"m", "o", "d", "e", "r", "a", "t", "e">>]]]

\* the characters of the output: white space, the braces of the document
\* and the members
StdoutChars == {" ", "{", "}"} \cup DOMAIN AdvisoryMembers

StderrTexts == {<<>>, <<" ">>, <<"e", " ">>}

\* JSON.parse: white space around the document is skipped, a document is a
\* pair of braces around members, anything else is a SyntaxError
JSONParse(text) ==
    LET t == trim(text)
    IN  IF Len(t) >= 2 /\ t[1] = "{" /\ t[Len(t)] = "}"
           /\ \A n \in 2..Len(t) - 1 : t[n] \in DOMAIN AdvisoryMembers
        THEN [ok |-> TRUE, members |-> SubSeq(t, 2, Len(t) - 1), message |-> ""]
        ELSE [ok |-> FALSE, members |-> <<>>,
              message |-> IF t # <<>> /\ t[1] = "{" /\ \A n \in 2..Len(t) : t[n] # "}"
                          THEN "Unexpected end of JSON input"
                          ELSE "Unexpected token"]

\* Object.values of the advisories object: one value for each key, the one
\* written last, and the keys, which are integers, in ascending order
RECURSIVE ValuesFrom(_, _)
ValuesFrom(members, key) ==
    LET holding == {n \in 1..Len(members) : AdvisoryMembers[members[n]].key = key}
        last == CHOOSE n \in holding : \A m \in holding : m <= n
        keys == {AdvisoryMembers[members[n]].key : n \in 1..Len(members)}
    IN  IF \A k \in keys : k < key THEN <<>>
        ELSE (IF holding = {} THEN <<>> ELSE <<AdvisoryMembers[members[last]].advisory>>)
             \o ValuesFrom(members, key + 1)

ObjectValues(members) == ValuesFrom(members, 1)

\* NpmAuditProvider.transform
transform(members) ==
    LET advisories == ObjectValues(members)
    IN  [n \in 1..Len(advisories) |->
            Finding(advisories[n].id, advisories[n].module_name,
                    normaliseSeverity(advisories[n].severity))]

\* the npm process could not be started: 'close' never comes, once() rejects
SpawnFailed == [error |-> "ENOENT", code |-> 0, stdout |-> <<>>, stderr |-> <<>>]

\* `exit code ${code}`
ExitCodeText(code) == <<"exit code", code>>

\* run that takes a failed process without output for a clean audit
runIgnoringExitCode(process) ==
    IF process.error # "" THEN Threw([prefix |-> "spawn", detail |-> <<process.error>>])
    ELSE LET parsed == JSONParse(process.stdout)
         IN  IF trim(process.stdout) # <<>> /\ ~parsed.ok
             THEN Threw([prefix |-> "Failed to parse npm audit output",
                         detail |-> <<parsed.message>>])
             ELSE Returned(IF trim(process.stdout) # <<>> THEN transform(parsed.members)
                           ELSE <<>>,
                           IF process.code # 0 /\ trim(process.stderr) # <<>>
                           THEN <<trim(process.stderr)>> ELSE <<>>)

\* NpmAuditProvider.run once the child process has closed
run(process) ==
    IF process.error # "" THEN Threw([prefix |-> "spawn", detail |-> <<process.error>>])
    ELSE IF process.code # 0 /\ trim(process.stdout) = <<>>
    THEN Threw([prefix |-> "npm audit failed",
                detail |-> IF trim(process.stderr) # <<>> THEN trim(process.stderr)
                           ELSE ExitCodeText(process.code)])
    ELSE LET parsed == JSONParse(process.stdout)
         IN  IF trim(process.stdout) # <<>> /\ ~parsed.ok
             THEN Threw([prefix |-> "Failed to parse npm audit output",
                         detail |-> <<parsed.message>>])
             ELSE Returned(IF trim(process.stdout) # <<>> THEN transform(parsed.members)
                           ELSE <<>>,
                           IF process.code # 0 /\ trim(process.stderr) # <<>>
                           THEN <<trim(process.stderr)>> ELSE <<>>)

\* the processes under check: closed with an exit code and output on both
\* streams, or never started
ChildProcesses ==
    [error : {""}, code : {0, 1}, stdout : SeqUpTo(StdoutChars, MaxStdout),
     stderr : StderrTexts]
    \cup {SpawnFailed}

\* provider.run({ target, includeDev })
NpmAuditRun ==
    /\ pc = "idle"
    /\ scan' = run(child)
    /\ pc' = "ran"
    /\ UNCHANGED <<licVars, defaults, args, ignoreRules, response, auxVars>>

----------------------------------------------------------------------------
(* The licence audit tool *)

\* the early returns of licenses.exec: arguments rejected by the schema,
\* target missing, Syft unavailable, SBOM not loadable
LicenseErrors ==
    {"Invalid arguments", "Target not found", "Syft CLI is not available",
     "SBOM file not found"}

\* licenses.exec returning early with an error-flagged response
LicensesExecError ==
    /\ pc = "idle"
    /\ \E text \in LicenseErrors : response' = ErrorResponse("licenses", text)
    /\ pc' = "done"
    /\ UNCHANGED <<licVars, secVars, auxVars>>

\* licenses.exec on a loadable SBOM: index, analysis, verdict, response
LicensesExec ==
    /\ pc = "idle"
    /\ \E entries \in Boms, flag \in BOOLEAN :
         LET index == buildLicenseIndex(licenses)
             result == analyzeWithPolicy(entries, index, [failOnUnknown |-> flag])
         IN  /\ bom' = entries
             /\ failOnUnknown' = flag
             /\ licenseIndex' = index
             /\ analysis' = result
             /\ response' = [tool |-> "licenses", isError |-> FALSE, text |-> "report",
                             structuredContent |->
                                 [ok |-> LicenseVerdict(result, flag),
                                  counts |-> result.counts,
                                  components |-> result.components,
                                  failReasons |-> result.failReasons]]
    /\ pc' = "done"
    /\ UNCHANGED <<licenses, secVars, auxVars>>

\* the server is ready for the next request; request-scoped state is gone
NextRequest ==
    /\ pc = "done"
    /\ pc' = "idle"
    /\ bom' = <<>>
    /\ failOnUnknown' = FALSE
    /\ licenseIndex' = EmptyMap
    /\ analysis' = EmptyAnalysis
    /\ args' = NoArgs
    /\ scan' = NoScan
    /\ ignoreRules' = <<>>
    /\ response' = NoResponse
    /\ UNCHANGED <<licenses, defaults, auxVars>>

\* no npm process has run, no ignore file has been read
NoChild == [error |-> "", code |-> 0, stdout |-> <<>>, stderr |-> <<>>]
NoFile == [kind |-> "missing"]

\* no function called on its own
NoCall == [op |-> "none"]
NoResult == [op |-> "none"]

\* the state of the parts of the program a specification does not exercise
AuxIdle ==
    /\ ruleSets = <<>>
    /\ child = NoChild
    /\ fileOnDisk = NoFile
    /\ heap = <<>>
    /\ held = 0
    /\ fnArgs = NoCall
    /\ fnResult = NoResult

\* the request-scoped state before any request
Idle ==
    /\ pc = "idle"
    /\ bom = <<>>
    /\ failOnUnknown = FALSE
    /\ licenseIndex = EmptyMap
    /\ analysis = EmptyAnalysis
    /\ args = NoArgs
    /\ scan = NoScan
    /\ ignoreRules = <<>>
    /\ response = NoResponse

InitLicenses ==
    /\ Idle
    /\ AuxIdle
    /\ licenses \in AuditPolicies
    /\ defaults = NoDefaults

NextLicenses == LicensesExec \/ LicensesExecError \/ NextRequest

SpecLicenses == InitLicenses /\ [][NextLicenses]_vars

\* buildLicenseIndex applied to the configured buckets
BuildIndex ==
    /\ pc = "idle"
    /\ licenseIndex' = buildLicenseIndex(licenses)
    /\ pc' = "indexed"
    /\ UNCHANGED <<licenses, bom, failOnUnknown, analysis, secVars, response, auxVars>>

InitIndex ==
    /\ Idle
    /\ AuxIdle
    /\ licenses \in Policies
    /\ defaults = NoDefaults

NextIndex == BuildIndex

SpecIndex == InitIndex /\ [][NextIndex]_vars

----------------------------------------------------------------------------
(* The security audit tool: requests *)

\* const args = { ...defaults, ...input.data }: an argument left out of the
\* call takes the configured default.  An empty ignoreIds list stands for the
\* argument left out; resolveIgnoreRules receives the configured ids as
\* configIgnoreIds in either case, so the merged rules are the same.
MergedArgs(config, input) ==
    [ignoreIds |-> IF input.ignoreIds # <<>> THEN input.ignoreIds ELSE config.ignoreIds,
     ignoreFile |-> IF input.ignoreFile # "" THEN input.ignoreFile ELSE config.ignoreFile,
     severityThreshold |-> IF input.severityThreshold # "" THEN input.severityThreshold
                           ELSE config.severityThreshold,
     failOnUnscanned |-> IF input.failOnUnscanned # "absent" THEN input.failOnUnscanned
                         ELSE config.failOnUnscanned]

\* the options security.exec hands to resolveIgnoreRules
IgnoreOptions(config, merged) ==
    [configIgnore |-> config.ignore,
     configIgnoreIds |-> config.ignoreIds,
     configIgnoreFile |-> config.ignoreFile,
     runtimeIds |-> merged.ignoreIds,
     runtimeFile |-> merged.ignoreFile]

\* args.severityThreshold ?? defaults.severityThreshold ?? DEFAULT_THRESHOLD
SeverityThresholdOf(merged) ==
    IF merged.severityThreshold # "" THEN merged.severityThreshold ELSE DEFAULT_THRESHOLD

\* the early returns of security.exec before the scanners run
SecurityErrors ==
    {"Invalid arguments", "Target not found", "SBOM not readable",
     "Syft CLI is not available"}

\* security.exec returning early with an error-flagged response
SecurityExecError ==
    /\ pc = "idle"
    /\ \E text \in SecurityErrors : response' = ErrorResponse("security", text)
    /\ pc' = "done"
    /\ UNCHANGED <<licVars, secVars, auxVars>>

\* Boolean(args.failOnUnscanned ?? defaults.failOnUnscanned ?? false)
FailOnUnscannedOf(merged) == merged.failOnUnscanned = "true"

\* the warnings after the provider block: those of the result, or the
\* message of the error the catch clause took
ProviderWarnings(outcome) ==
    IF outcome.kind = "throws" THEN <<outcome.message>> ELSE outcome.warnings

\* the structured content of a security report
SecurityReport(outcome, audit) ==
    [ok |-> audit.ok,
     counts |-> audit.counts,
     findings |-> audit.findings,
     ignored |-> audit.ignored,
     warnings |-> ProviderWarnings(outcome) \o audit.warnings,
     failReasons |-> audit.failReasons]

\* SecurityResponse that returns the error of a provider that threw
SecurityResponseProviderFatal(failOnUnscanned, outcome, audit) ==
    IF outcome.kind = "throws"
    THEN ErrorResponse("security", outcome.message)
    ELSE IF outcome.findings = <<>> /\ failOnUnscanned
         THEN ErrorResponse("security", "No scanners produced results")
         ELSE [tool |-> "security", isError |-> ~audit.ok, text |-> "report",
               structuredContent |-> SecurityReport(outcome, audit)]

\* SecurityResponse that never flags a report as an error
SecurityResponseNeverError(failOnUnscanned, outcome, audit) ==
    IF outcome.findings = <<>> /\ failOnUnscanned
    THEN ErrorResponse("security", "No scanners produced results")
    ELSE [tool |-> "security", isError |-> FALSE, text |-> "report",
          structuredContent |-> SecurityReport(outcome, audit)]

\* security.exec after the provider block: the failOnUnscanned return, or
\* the report with isError: !ok
SecurityResponse(failOnUnscanned, outcome, audit) ==
    IF outcome.findings = <<>> /\ failOnUnscanned
    THEN ErrorResponse("security", "No scanners produced results")
    ELSE [tool |-> "security", isError |-> ~audit.ok, text |-> "report",
          structuredContent |-> SecurityReport(outcome, audit)]

\* security.exec from the merge of the arguments to the response
SecurityExec ==
    /\ pc = "idle"
    /\ \E input \in SecurityArgs, outcome \in ScanOutcomes :
         LET merged == MergedArgs(defaults, input)
             severityThreshold == SeverityThresholdOf(merged)
             rules == resolveIgnoreRules(IgnoreOptions(defaults, merged))
             audit == AuditFindings(outcome.findings, rules, severityThreshold)
         IN  /\ args' = input
             /\ scan' = outcome
             /\ ignoreRules' = rules
             /\ response' = SecurityResponse(FailOnUnscannedOf(merged), outcome, audit)
    /\ pc' = "done"
    /\ UNCHANGED <<licVars, defaults, auxVars>>

InitSecurity ==
    /\ Idle
    /\ AuxIdle
    /\ licenses = Policy(<<>>, <<>>, <<>>)
    /\ defaults \in SecurityDefaults

NextSecurity == SecurityExec \/ SecurityExecError \/ NextRequest

SpecSecurity == InitSecurity /\ [][NextSecurity]_vars

\* resolveIgnoreRules applied to the configured and the runtime sources
ResolveIgnoreRules ==
    /\ pc = "idle"
    /\ ignoreRules' = resolveIgnoreRules(IgnoreOptions(defaults, MergedArgs(defaults, args)))
    /\ pc' = "resolved"
    /\ UNCHANGED <<licVars, defaults, args, scan, response, auxVars>>

InitResolve ==
    /\ pc = "idle"
    /\ licenses = Policy(<<>>, <<>>, <<>>)
    /\ bom = <<>>
    /\ failOnUnknown = FALSE
    /\ licenseIndex = EmptyMap
    /\ analysis = EmptyAnalysis
    /\ defaults \in IgnoreDefaults
    /\ args \in [ignoreIds : IdLists, ignoreFile : IgnorePaths,
                 severityThreshold : {""}, failOnUnscanned : {"absent"}]
    /\ scan = NoScan
    /\ ignoreRules = <<>>
    /\ response = NoResponse
    /\ AuxIdle

NextResolve == ResolveIgnoreRules

SpecResolve == InitResolve /\ [][NextResolve]_vars

----------------------------------------------------------------------------
(* The server with both audit tools *)

\* the licence policies and security settings of the servers under check
ServerPolicies ==
    { Policy(<<Id(MIT)>>, <<>>, <<Id(GPL)>>),
      Policy(<<Id(MitPadded)>>, <<Id(GPL)>>, <<>>) }

ServerDefaults ==
    { NoDefaults,
      SecurityDefault(<<>>, "", <<Adv1>>, "", "medium", "absent") }

InitServer ==
    /\ Idle
    /\ AuxIdle
    /\ licenses \in ServerPolicies
    /\ defaults \in ServerDefaults

NextServer ==
    LicensesExec \/ LicensesExecError \/ SecurityExec \/ SecurityExecError \/ NextRequest

SpecServer == InitServer /\ [][NextServer]_vars

----------------------------------------------------------------------------
(* NpmAuditProvider.run on its own *)

InitNpm ==
    /\ Idle
    /\ licenses = Policy(<<>>, <<>>, <<>>)
    /\ defaults = NoDefaults
    /\ ruleSets = <<>>
    /\ child \in ChildProcesses
    /\ fileOnDisk = NoFile
    /\ heap = <<>>
    /\ held = 0
    /\ fnArgs = NoCall
    /\ fnResult = NoResult

NextNpm == NpmAuditRun

SpecNpm == InitNpm /\ [][NextNpm]_vars

----------------------------------------------------------------------------
(* loadIgnoreRules on its own *)

\* loadIgnoreRules(args.ignoreFile) with fileOnDisk at the resolved path
LoadIgnoreRules ==
    /\ pc = "idle"
    /\ LET result == ReadIgnoreFile(resolve(args.ignoreFile), fileOnDisk)
       IN  /\ ignoreRules' = result.rules
           /\ response' = IF result.kind = "throws"
                          THEN ErrorResponse("loadIgnoreRules", result.message)
                          ELSE [tool |-> "loadIgnoreRules", isError |-> FALSE, text |-> ""]
    /\ pc' = "loaded"
    /\ UNCHANGED <<licVars, defaults, args, scan, auxVars>>

InitLoad ==
    /\ pc = "idle"
    /\ licenses = Policy(<<>>, <<>>, <<>>)
    /\ bom = <<>>
    /\ failOnUnknown = FALSE
    /\ licenseIndex = EmptyMap
    /\ analysis = EmptyAnalysis
    /\ defaults = NoDefaults
    /\ args \in [ignoreIds : {<<>>}, ignoreFile : LoadPaths,
                 severityThreshold : {""}, failOnUnscanned : {"absent"}]
    /\ scan = NoScan
    /\ ignoreRules = <<>>
    /\ response = NoResponse
    /\ ruleSets = <<>>
    /\ child = NoChild
    /\ fileOnDisk \in FileContents
    /\ heap = <<>>
    /\ held = 0
    /\ fnArgs = NoCall
    /\ fnResult = NoResult

NextLoad == LoadIgnoreRules

SpecLoad == InitLoad /\ [][NextLoad]_vars

----------------------------------------------------------------------------
(* The Config store: licence buckets *)

\* checkAndSet that appends whether or not the id is there
checkAndSetAlwaysPush(list, id, value) == Append(list, value)

\* checkAndSet with getId = (value) => value.id: replace the first item with
\* the id, or push
checkAndSet(list, id, value) ==
    LET identifier == trim(id)
        found == {n \in 1..Len(list) : list[n].id = identifier}
    IN  IF found = {} THEN Append(list, value)
        ELSE [list EXCEPT ![CHOOSE n \in found : \A m \in found : n <= m] = value]

\* Config.license: it throws for an entry without id or with a blank one, and
\* otherwise stores the entry, its id and name trimmed, in the bucket named
license(buckets, category, entry) ==
    IF trim(entry.id) = <<>>
    THEN [threw |-> TRUE, licenses |-> buckets]
    ELSE [threw |-> FALSE,
          licenses |-> [buckets EXCEPT ![category] =
                           checkAndSet(@, trim(entry.id),
                                       [id |-> trim(entry.id), name |-> trim(entry.name)])]]

LicenseCategories == {"green", "yellow", "red"}

\* the entries given to Config.license: an id in either case, padded, with a
\* name, and blank
LicenseCalls ==
    { Id(MIT), Id(MitPadded), [id |-> <<"m", "i", "t">>, name |-> <<" ", "x">>],
      Id(<<" ">>) }

\* config.license(category, entry)
License ==
    /\ pc = "idle"
    /\ \E category \in LicenseCategories, entry \in LicenseCalls :
         LET result == license(licenses, category, entry)
         IN  /\ licenses' = result.licenses
             /\ response' = IF result.threw
                            THEN ErrorResponse("Config.license", "License entry requires an id")
                            ELSE [tool |-> "Config.license", isError |-> FALSE, text |-> ""]
    /\ UNCHANGED <<pc, bom, failOnUnknown, licenseIndex, analysis, secVars, auxVars>>

\* a Config constructed without licences, with one approved licence, with
\* an approved licence listed twice, or with one whose id is padded: the
\* constructor copies the lists as they are
ConstructedLicenses ==
    { Policy(<<>>, <<>>, <<>>), Policy(<<Id(GPL)>>, <<>>, <<>>),
      Policy(<<Id(MIT), Id(MIT)>>, <<>>, <<>>), Policy(<<Id(MitPadded)>>, <<>>, <<>>) }

InitConfig ==
    /\ Idle
    /\ AuxIdle
    /\ licenses \in ConstructedLicenses
    /\ defaults = NoDefaults

NextConfig == License

SpecConfig == InitConfig /\ [][NextConfig]_vars

----------------------------------------------------------------------------
(* The Config store: accessors and the objects they return *)

\* the objects of the heap: arrays of references, objects with fields that
\* hold texts, and objects whose members are references
ArrayOf(kind, items) == [type |-> "array", of |-> kind, items |-> items]
ObjectOf(kind, value) == [type |-> "object", of |-> kind, value |-> value]
MapOf(kind, refs) == [type |-> "map", of |-> kind, refs |-> refs]

\* the addresses the fields of the Config hold
Roots ==
    [green |-> 1, yellow |-> 2, red |-> 3, resources |-> 4, instructions |-> 5,
     profileData |-> 6, detectionBuckets |-> 7, toolConfigs |-> 8]

\* the heap after new Config(options), for options with two licences, a
\* resource, an instruction, a profile, a detection bucket and the settings
\* of the security tool
ConstructedHeap ==
    << ArrayOf("license", <<9>>),
       ArrayOf("license", <<>>),
       ArrayOf("license", <<10>>),
       ArrayOf("plain", <<11>>),
       ArrayOf("plain", <<12>>),
       ObjectOf("plain", [name |-> "GoDaddy"]),
       MapOf("plain", [bucket \in {"internal"} |-> 13]),
       MapOf("plain", [tool \in {"security"} |-> 14]),
       ObjectOf("license", Id(MIT)),
       ObjectOf("license", Id(GPL)),
       ObjectOf("plain", [name |-> "LICENSE", path |-> "LICENSE"]),
       ObjectOf("plain", [name |-> "review", content |-> "Review the repository."]),
       ArrayOf("plain", <<15>>),
       ObjectOf("plain", [severityThreshold |-> "high"]),
       ObjectOf("plain", [id |-> "internal-domains", match |-> "corp"]) >>

\* the data behind a reference
RECURSIVE ValueAt(_, _)
ValueAt(h, addr) ==
    IF h[addr].type = "array"
    THEN [n \in 1..Len(h[addr].items) |-> ValueAt(h, h[addr].items[n])]
    ELSE IF h[addr].type = "map"
    THEN [k \in DOMAIN h[addr].refs |-> ValueAt(h, h[addr].refs[k])]
    ELSE h[addr].value

\* this.licenses as data
BucketsOf(h) ==
    [green |-> ValueAt(h, Roots.green), yellow |-> ValueAt(h, Roots.yellow),
     red |-> ValueAt(h, Roots.red)]

\* [...list]: a new array that holds the same references
CopyOfArray(h, addr) ==
    [heap |-> Append(h, h[addr]), value |-> Len(h) + 1]

\* { ...object }: a new object with the same fields
CopyOfObject(h, addr) ==
    [heap |-> Append(h, h[addr]), value |-> Len(h) + 1]

\* list.map((item) => ({ ...item })): a new array of new objects
CopyOfEntries(h, addr) ==
    LET items == h[addr].items
    IN  [heap |-> h \o [k \in 1..Len(items) |-> h[items[k]]]
                   \o <<ArrayOf(h[addr].of, [k \in 1..Len(items) |-> Len(h) + k])>>,
         value |-> Len(h) + Len(items) + 1]

getLicenses(h, category) == CopyOfArray(h, Roots[category])

getResources(h) == CopyOfArray(h, Roots.resources)

getInstructions(h) == CopyOfEntries(h, Roots.instructions)

getProfile(h) == CopyOfObject(h, Roots.profileData)

\* getDetection(bucket): copies of the patterns of the bucket, [] for a
\* bucket that is not there; getDetection(): this.detectionBuckets itself
getDetection(h, bucket) ==
    IF bucket = "" THEN [heap |-> h, value |-> Roots.detectionBuckets]
    ELSE IF bucket \in DOMAIN h[Roots.detectionBuckets].refs
    THEN CopyOfEntries(h, h[Roots.detectionBuckets].refs[bucket])
    ELSE [heap |-> Append(h, ArrayOf("plain", <<>>)), value |-> Len(h) + 1]

\* getTool(name): this.toolConfigs[name] itself; 0 stands for undefined
getTool(h, name) ==
    [heap |-> h,
     value |-> IF name \in DOMAIN h[Roots.toolConfigs].refs
               THEN h[Roots.toolConfigs].refs[name] ELSE 0]

\* the objects a caller reaches from a reference
RECURSIVE Reach(_, _)
Reach(h, addr) ==
    {addr} \cup
    (IF h[addr].type = "array"
     THEN UNION {Reach(h, h[addr].items[n]) : n \in 1..Len(h[addr].items)}
     ELSE IF h[addr].type = "map"
     THEN UNION {Reach(h, h[addr].refs[k]) : k \in DOMAIN h[addr].refs}
     ELSE {})

\* an object a caller makes to add it to an array
Fresh(kind) ==
    IF kind = "license" THEN ObjectOf(kind, Id(<<"*">>))
    ELSE ObjectOf(kind, [name |-> "added"])

\* what a caller may do to one object: push an element or pop one, assign a
\* field, delete a member
Mutations(h, addr) ==
    IF h[addr].type = "array"
    THEN {[Append(h, Fresh(h[addr].of)) EXCEPT ![addr].items = Append(@, Len(h) + 1)]}
         \cup {[h EXCEPT ![addr].items = SubSeq(@, 1, Len(@) - 1)] : n \in 1..Len(h[addr].items)}
    ELSE IF h[addr].type = "map"
    THEN {[h EXCEPT ![addr].refs = [j \in DOMAIN @ \ {k} |-> @[j]]] : k \in DOMAIN h[addr].refs}
    ELSE {[h EXCEPT ![addr].value =
              IF h[addr].of = "license" THEN [@ EXCEPT !.id = <<"*">>]
              ELSE [f \in DOMAIN @ |-> "changed"]]}

\* an accessor returns: the objects it made are on the heap, the caller holds
\* the reference
Hands(result) ==
    /\ Len(result.heap) <= MaxHeap
    /\ heap' = result.heap
    /\ held' = result.value

\* config.getLicenses(category)
GetLicenses ==
    /\ pc = "idle"
    /\ \E category \in LicenseCategories : Hands(getLicenses(heap, category))
    /\ UNCHANGED <<pc, licVars, secVars, response, ruleSets, child, fileOnDisk, fnArgs, fnResult>>

\* config.getResources()
GetResources ==
    /\ pc = "idle"
    /\ Hands(getResources(heap))
    /\ UNCHANGED <<pc, licVars, secVars, response, ruleSets, child, fileOnDisk, fnArgs, fnResult>>

\* config.getInstructions()
GetInstructions ==
    /\ pc = "idle"
    /\ Hands(getInstructions(heap))
    /\ UNCHANGED <<pc, licVars, secVars, response, ruleSets, child, fileOnDisk, fnArgs, fnResult>>

\* config.getProfile()
GetProfile ==
    /\ pc = "idle"
    /\ Hands(getProfile(heap))
    /\ UNCHANGED <<pc, licVars, secVars, response, ruleSets, child, fileOnDisk, fnArgs, fnResult>>

\* config.getDetection(bucket) and config.getDetection()
GetDetection ==
    /\ pc = "idle"
    /\ \E bucket \in {"", "internal", "secrets"} : Hands(getDetection(heap, bucket))
    /\ UNCHANGED <<pc, licVars, secVars, response, ruleSets, child, fileOnDisk, fnArgs, fnResult>>

\* config.getTool(name)
GetTool ==
    /\ pc = "idle"
    /\ \E name \in {"security", "secretlint"} : Hands(getTool(heap, name))
    /\ UNCHANGED <<pc, licVars, secVars, response, ruleSets, child, fileOnDisk, fnArgs, fnResult>>

\* the caller changes an object it reaches from the value it holds
Mutate ==
    /\ held # 0
    /\ \E target \in Reach(heap, held) :
         \E changed \in Mutations(heap, target) :
            /\ Len(changed) <= MaxHeap
            /\ heap' = changed
            /\ licenses' = BucketsOf(changed)
    /\ UNCHANGED <<pc, bom, failOnUnknown, licenseIndex, analysis, secVars, response,
                   ruleSets, child, fileOnDisk, held, fnArgs, fnResult>>

InitAccess ==
    /\ Idle
    /\ licenses = BucketsOf(ConstructedHeap)
    /\ defaults = NoDefaults
    /\ ruleSets = <<>>
    /\ child = NoChild
    /\ fileOnDisk = NoFile
    /\ heap = ConstructedHeap
    /\ held = 0
    /\ fnArgs = NoCall
    /\ fnResult = NoResult

NextAccess ==
    \/ GetLicenses \/ GetResources \/ GetInstructions \/ GetProfile
    \/ GetDetection \/ GetTool \/ Mutate

SpecAccess == InitAccess /\ [][NextAccess]_vars

----------------------------------------------------------------------------
(* mergeConfigs *)

\* the options the constructor takes apart; every other option is kept as
\* a property of the instance
ConfigOptionKeys == {"licenses", "resources", "instructions", "detection", "profile", "tools"}

\* new Config(options): the own properties of the instance.  The six fields
\* are always set, an option left out giving the empty value; the options
\* the constructor does not know are assigned to the instance as they are.
ConfigOf(options) ==
    LET given == IF "licenses" \in DOMAIN options THEN options.licenses ELSE EmptyMap
        bucket(category) == IF category \in DOMAIN given THEN given[category] ELSE <<>>
        rest == [k \in DOMAIN options \ ConfigOptionKeys |-> options[k]]
    IN  rest @@
        [licenses |-> Policy(bucket("green"), bucket("yellow"), bucket("red")),
         resources |-> <<>>,
         instructions |-> <<>>,
         detectionBuckets |-> EmptyMap,
         profileData |-> EmptyMap,
         toolConfigs |-> IF "tools" \in DOMAIN options THEN options.tools ELSE EmptyMap]

\* Object.assign that keeps what the target has
ObjectAssignKeepingTarget(target, source) == target @@ source

\* Object.assign(target, source): every own property of the source is set on
\* the target
ObjectAssign(target, source) == source @@ target

\* for (const config of configs) Object.assign(merged, config)
RECURSIVE MergeInto(_, _)
MergeInto(merged, configs) ==
    IF configs = <<>> THEN merged
    ELSE MergeInto(ObjectAssign(merged, Head(configs)), Tail(configs))

mergeConfigs(configs) == MergeInto(ConfigOf(EmptyMap), configs)

\* the options of the configs merged: none, a policy with extra properties
\* and a nested object, another policy with some of these properties and
\* another nested object, and tool settings
ConfigOptionInputs ==
    { EmptyMap,
      [licenses |-> [green |-> <<Id(MIT)>>], id |-> "first", keep |-> "yes",
       nested |-> [a |-> 1]],
      [licenses |-> [red |-> <<Id(GPL)>>], id |-> "second", nested |-> [b |-> 2]],
      [tools |-> [security |-> [severityThreshold |-> "low"]], nested |-> [a |-> 1, b |-> 3]] }

\* mergeConfigs(configs)
MergeConfigs ==
    /\ pc = "idle"
    /\ fnArgs.op = "mergeConfigs"
    /\ fnResult' = [op |-> fnArgs.op, value |-> mergeConfigs(fnArgs.configs)]
    /\ pc' = "applied"
    /\ UNCHANGED <<licVars, secVars, response, ruleSets, child, fileOnDisk, heap, held, fnArgs>>

InitMergeConfigs ==
    /\ Idle
    /\ licenses = Policy(<<>>, <<>>, <<>>)
    /\ defaults = NoDefaults
    /\ ruleSets = <<>>
    /\ child = NoChild
    /\ fileOnDisk = NoFile
    /\ heap = <<>>
    /\ held = 0
    /\ fnArgs \in {[op |-> "mergeConfigs", configs |-> list] :
                     list \in SeqUpTo({ConfigOf(options) : options \in ConfigOptionInputs},
                                      MaxConfigs)}
    /\ fnResult = NoResult

NextMergeConfigs == MergeConfigs

SpecMergeConfigs == InitMergeConfigs /\ [][NextMergeConfigs]_vars

----------------------------------------------------------------------------
(* The severity helpers on their own *)

\* severities as a provider may spell them: the names of the table and the
\* aliases in lower and in upper case, a prototype key, an absent value, an
\* unrecognised word and a padded name
RawSeverities ==
    {Spelled[name] : name \in DOMAIN Spelled}
    \cup {toUpperCase(Spelled[name]) : name \in DOMAIN Spelled}
    \cup {<<>>, <<"x">>, <<" ", "l", "o", "w">>, <<"H", "i", "g", "h">>}

\* findings of every severity, and one whose severity is outside the table
SeverityFindings ==
    {Finding(Adv1, PkgLeft, severity) : severity \in DOMAIN SEVERITY_WEIGHTS \cup {"constructor"}}

SeverityCalls ==
    {[op |-> "normaliseSeverity", severity |-> raw] : raw \in RawSeverities}
    \cup {[op |-> "meetsSeverityThreshold", severity |-> s, threshold |-> t] :
             s \in DOMAIN SEVERITY_WEIGHTS, t \in DOMAIN SEVERITY_WEIGHTS}
    \cup {[op |-> "summariseFindings", findings |-> list] :
             list \in SeqUpTo(SeverityFindings, MaxFindings)}

\* normaliseSeverity(severity)
NormaliseSeverity ==
    /\ pc = "idle"
    /\ fnArgs.op = "normaliseSeverity"
    /\ fnResult' = [op |-> fnArgs.op, value |-> normaliseSeverity(fnArgs.severity)]
    /\ pc' = "applied"
    /\ UNCHANGED <<licVars, secVars, response, ruleSets, child, fileOnDisk, heap, held, fnArgs>>

\* meetsSeverityThreshold(severity, threshold)
MeetsSeverityThreshold ==
    /\ pc = "idle"
    /\ fnArgs.op = "meetsSeverityThreshold"
    /\ fnResult' = [op |-> fnArgs.op,
                    value |-> meetsSeverityThreshold(fnArgs.severity, fnArgs.threshold)]
    /\ pc' = "applied"
    /\ UNCHANGED <<licVars, secVars, response, ruleSets, child, fileOnDisk, heap, held, fnArgs>>

\* summariseFindings(findings)
SummariseFindings ==
    /\ pc = "idle"
    /\ fnArgs.op = "summariseFindings"
    /\ fnResult' = [op |-> fnArgs.op, value |-> summariseFindings(fnArgs.findings)]
    /\ pc' = "applied"
    /\ UNCHANGED <<licVars, secVars, response, ruleSets, child, fileOnDisk, heap, held, fnArgs>>

InitSeverity ==
    /\ Idle
    /\ licenses = Policy(<<>>, <<>>, <<>>)
    /\ defaults = NoDefaults
    /\ ruleSets = <<>>
    /\ child = NoChild
    /\ fileOnDisk = NoFile
    /\ heap = <<>>
    /\ held = 0
    /\ fnArgs \in SeverityCalls
    /\ fnResult = NoResult

NextSeverity == NormaliseSeverity \/ MeetsSeverityThreshold \/ SummariseFindings

SpecSeverity == InitSeverity /\ [][NextSeverity]_vars

----------------------------------------------------------------------------
(* applyIgnoreRules on its own *)

\* applyIgnoreRules applied to a list of findings and a list of rules
ApplyIgnoreRules ==
    /\ pc = "idle"
    /\ response' = [tool |-> "applyIgnoreRules", isError |-> FALSE, text |-> "",
                    structuredContent |-> applyIgnoreRules(scan.findings, ignoreRules)]
    /\ pc' = "applied"
    /\ UNCHANGED <<licVars, secVars, auxVars>>

InitApply ==
    /\ pc = "idle"
    /\ licenses = Policy(<<>>, <<>>, <<>>)
    /\ bom = <<>>
    /\ failOnUnknown = FALSE
    /\ licenseIndex = EmptyMap
    /\ analysis = EmptyAnalysis
    /\ defaults = NoDefaults
    /\ args = NoArgs
    /\ scan \in {Returned(fs, <<>>) : fs \in SeqUpTo(Findings, MaxFindings)}
    /\ ignoreRules \in RuleLists
    /\ response = NoResponse
    /\ AuxIdle

NextApply == ApplyIgnoreRules

SpecApply == InitApply /\ [][NextApply]_vars

----------------------------------------------------------------------------
(* mergeIgnoreRules on its own *)

\* mergeIgnoreRules applied to a sequence of rule sets
MergeIgnoreRules ==
    /\ pc = "idle"
    /\ ignoreRules' = mergeIgnoreRules(ruleSets)
    /\ pc' = "merged"
    /\ UNCHANGED <<licVars, defaults, args, scan, response, auxVars>>

InitMerge ==
    /\ Idle
    /\ licenses = Policy(<<>>, <<>>, <<>>)
    /\ defaults = NoDefaults
    /\ ruleSets \in SeqUpTo(RuleSetInputs, MaxSets)
    /\ child = NoChild
    /\ fileOnDisk = NoFile
    /\ heap = <<>>
    /\ held = 0
    /\ fnArgs = NoCall
    /\ fnResult = NoResult

NextMerge == MergeIgnoreRules

SpecMerge == InitMerge /\ [][NextMerge]_vars

----------------------------------------------------------------------------
(* Properties of the licence audit *)

\* a licence audit has answered with a report
Audited == pc = "done" /\ response.tool = "licenses" /\ ~response.isError

\* the bucket the built index gives a raw licence token, "unknown" when the
\* token is not in the index
TokenCategory(token) ==
    IF normalizeLicenseId(token) \in DOMAIN licenseIndex
    THEN licenseIndex[normalizeLicenseId(token)].category
    ELSE "unknown"

\* the buckets of the tokens of the i-th component
TokenCategories(i) == {TokenCategory(bom[i].licenses[j]) : j \in 1..Len(bom[i].licenses)}

Classification(i) == response.structuredContent.components[i].classification

\* C1: a component with at least one token the index maps to the prohibited
\* bucket is classified prohibited, wherever that token stands in the list.
C1_ProhibitedWins ==
    Audited =>
        \A i \in 1..Len(bom) : "red" \in TokenCategories(i) => Classification(i) = "red"

\* a prohibited token in second place, behind a conditional one
C1_Witness ==
    /\ Audited
    /\ \E i \in 1..Len(bom) :
         /\ Len(bom[i].licenses) = 2
         /\ TokenCategory(bom[i].licenses[1]) = "yellow"
         /\ TokenCategory(bom[i].licenses[2]) = "red"
         /\ Classification(i) = "red"

\* the category of highest rank among cats, for a ranking of the categories
Highest(cats, rank) == CHOOSE c \in cats : \A d \in cats : rank[d] <= rank[c]

RankUnknownOverApproved == [red |-> 4, yellow |-> 3, unknown |-> 2, green |-> 1]
RankApprovedOverUnknown == [red |-> 4, yellow |-> 3, green |-> 2, unknown |-> 1]

\* C2 as stated: the classification of a licensed component is the highest
\* category of its tokens under prohibited > conditional > unknown > approved.
C2_AsStated ==
    Audited =>
        \A i \in 1..Len(bom) :
            bom[i].licenses # <<>> =>
                Classification(i) = Highest(TokenCategories(i), RankUnknownOverApproved)

\* C2 amended: the classification of a licensed component is the highest
\* category of its tokens under prohibited > conditional > approved > unknown.
C2_PriorityFold ==
    Audited =>
        \A i \in 1..Len(bom) :
            bom[i].licenses # <<>> =>
                Classification(i) = Highest(TokenCategories(i), RankApprovedOverUnknown)

\* an approved token followed by an unmatched one: the case on which the two
\* orders differ
C2_Witness ==
    /\ Audited
    /\ \E i \in 1..Len(bom) :
         /\ Len(bom[i].licenses) = 2
         /\ TokenCategory(bom[i].licenses[1]) = "green"
         /\ TokenCategory(bom[i].licenses[2]) = "unknown"
         /\ Classification(i) = "green"

\* C3: a component with an approved token and no conditional or prohibited
\* token is classified approved, also when other tokens are not in the index.
C3_ApprovedDespiteUnknown ==
    Audited =>
        \A i \in 1..Len(bom) :
            ("green" \in TokenCategories(i) /\ "yellow" \notin TokenCategories(i)
                /\ "red" \notin TokenCategories(i))
            => Classification(i) = "green"

\* an unmatched token first, an approved one second
C3_Witness ==
    /\ Audited
    /\ \E i \in 1..Len(bom) :
         /\ Len(bom[i].licenses) = 2
         /\ TokenCategory(bom[i].licenses[1]) = "unknown"
         /\ TokenCategory(bom[i].licenses[2]) = "green"
         /\ Classification(i) = "green"

\* the number of reported components with classification c
Classified(c) == Cardinality({i \in 1..Len(response.structuredContent.components) : Classification(i) = c})

\* C4: ok = (no prohibited component) and (not failOnUnknown or (no unknown
\* and no unlicensed component)); conditional components never change ok.
C4_Verdict ==
    Audited =>
        /\ response.structuredContent.counts.red = Classified("red")
        /\ response.structuredContent.counts.unknown = Classified("unknown")
        /\ response.structuredContent.counts.unlicensed = Classified("unlicensed")
        /\ response.structuredContent.ok =
              (Classified("red") = 0
               /\ (~failOnUnknown \/ (Classified("unknown") = 0 /\ Classified("unlicensed") = 0)))

\* an audit that passes although a component is conditional
C4_Witness ==
    /\ Audited
    /\ failOnUnknown
    /\ Classified("yellow") > 0
    /\ response.structuredContent.ok

\* the fail reasons that name component key
ReasonsOf(key) == {n \in 1..Len(response.structuredContent.failReasons) : response.structuredContent.failReasons[n].key = key}

\* whether a component of classification c owes a fail reason
OwesReason(c) ==
    \/ c \in {"red", "yellow"}
    \/ (failOnUnknown /\ c \in {"unknown", "unlicensed"})

\* C5: every component contributes one fail reason when it is prohibited or
\* conditional, or unknown or unlicensed under failOnUnknown, and none
\* otherwise; the number of fail reasons is red + yellow + (failOnUnknown ?
\* unknown + unlicensed : 0).
C5_FailReasons ==
    Audited =>
        /\ \A i \in 1..Len(bom) :
             Cardinality(ReasonsOf(bom[i].key)) = IF OwesReason(Classification(i)) THEN 1 ELSE 0
        /\ Len(response.structuredContent.failReasons) =
              response.structuredContent.counts.red + response.structuredContent.counts.yellow
              + (IF failOnUnknown THEN response.structuredContent.counts.unknown + response.structuredContent.counts.unlicensed
                 ELSE 0)

\* two components, one with a reason (conditional) and one without (unknown,
\* failOnUnknown unset)
C5_Witness ==
    /\ Audited
    /\ ~failOnUnknown
    /\ Classified("yellow") = 1
    /\ Classified("unknown") = 1
    /\ Len(response.structuredContent.failReasons) = 1

\* C6: a component is classified unlicensed exactly when its licence list is
\* empty; it is then not unknown, has no matches, and is not counted in
\* counts.withLicenses.
C6_Unlicensed ==
    Audited =>
        /\ \A i \in 1..Len(bom) :
             /\ (Classification(i) = "unlicensed") <=> (bom[i].licenses = <<>>)
             /\ bom[i].licenses = <<>> =>
                  /\ Classification(i) # "unknown"
                  /\ response.structuredContent.components[i].matchedLicences = <<>>
        /\ response.structuredContent.counts.withLicenses =
              Cardinality({i \in 1..Len(bom) : bom[i].licenses # <<>>})

\* an SBOM with one component without licences and one with
C6_Witness ==
    /\ Audited
    /\ Len(bom) = 2
    /\ bom[1].licenses = <<>>
    /\ bom[2].licenses # <<>>
    /\ Classification(1) = "unlicensed"
    /\ response.structuredContent.counts.withLicenses = 1

EmptyPolicy == licenses.green = <<>> /\ licenses.yellow = <<>> /\ licenses.red = <<>>

\* C7: a component with licences none of which is in the index is unknown;
\* under a policy with three empty buckets every licensed component is.
C7_Unknown ==
    Audited =>
        /\ \A i \in 1..Len(bom) :
             (bom[i].licenses # <<>> /\ TokenCategories(i) = {"unknown"})
             => Classification(i) = "unknown"
        /\ EmptyPolicy =>
             \A i \in 1..Len(bom) : bom[i].licenses # <<>> => Classification(i) = "unknown"

\* an unknown component under the empty policy
C7_Witness ==
    /\ Audited
    /\ EmptyPolicy
    /\ \E i \in 1..Len(bom) : Len(bom[i].licenses) = 2 /\ Classification(i) = "unknown"

----------------------------------------------------------------------------
(* Properties of the licence policy index *)

\* the keys an entry is inserted under
KeysOf(entry) ==
    IF entry.id = <<>> THEN {}
    ELSE {normalizeLicenseId(entry.id)}
         \cup (IF entry.name # <<>> THEN {normalizeLicenseId(entry.name)} ELSE {})

\* the positions of the entries of a bucket that are inserted under key
Holders(category, key) ==
    {n \in 1..Len(licenses[category]) : key \in KeysOf(licenses[category][n])}

\* the last bucket, in the order approved, conditional, prohibited, with an
\* entry inserted under key
LastBucket(key) ==
    IF Holders("red", key) # {} THEN "red"
    ELSE IF Holders("yellow", key) # {} THEN "yellow"
    ELSE "green"

Max(S) == CHOOSE n \in S : \A m \in S : m <= n

\* C8: the index holds exactly the normalized ids and display names of the
\* entries that have an id, each mapped to the last bucket (in the order
\* approved, conditional, prohibited) that inserts it, and to the last entry
\* of that bucket doing so.
C8_LastWriteWins ==
    pc = "indexed" =>
        LET keys == UNION {UNION {KeysOf(licenses[c][n]) : n \in 1..Len(licenses[c])} :
                              c \in {"green", "yellow", "red"}}
        IN  /\ DOMAIN licenseIndex = keys
            /\ \A key \in keys :
                 /\ licenseIndex[key].category = LastBucket(key)
                 /\ licenseIndex[key].source =
                        licenses[LastBucket(key)][Max(Holders(LastBucket(key), key))]

\* a display name listed as approved and an id listed as prohibited collide
C8_Witness ==
    /\ pc = "indexed"
    /\ licenses.green = <<[id |-> GPL, name |-> MIT]>>
    /\ licenses.red = <<Id(MIT)>>
    /\ licenseIndex[MIT].category = "red"
    /\ licenseIndex[GPL].category = "green"

----------------------------------------------------------------------------
(* Properties of the security audit *)

\* a security audit has answered with a report
Scanned ==
    pc = "done" /\ response.tool = "security" /\ "structuredContent" \in DOMAIN response

\* the findings that survive applyIgnoreRules in the request served
Survivors == applyIgnoreRules(scan.findings, ignoreRules).findings

\* the threshold the request served was judged against
Threshold == SeverityThresholdOf(MergedArgs(defaults, args))

\* the positions of the surviving findings that meet the threshold
Blocking ==
    {i \in 1..Len(Survivors) :
        SEVERITY_WEIGHTS[Survivors[i].severity] >= SEVERITY_WEIGHTS[Threshold]}

\* the fail reasons of the response that name finding f
ReasonsNaming(f) ==
    {n \in 1..Len(response.structuredContent.failReasons) :
        LET r == response.structuredContent.failReasons[n]
        IN  r.id = f.id /\ r.packageName = f.packageName /\ r.severity = f.severity}

\* C9: counts and fail reasons come from the findings that survive
\* applyIgnoreRules only: the reported findings are the survivors, every
\* severity count is the number of survivors of that severity, there is one
\* fail reason for each survivor that meets the threshold and none else, and
\* ok holds exactly when there is no fail reason.
C9_SurvivorsDecide ==
    Scanned =>
        LET sc == response.structuredContent IN
        /\ sc.findings = Survivors
        /\ Len(sc.findings) + Len(sc.ignored) = Len(scan.findings)
        /\ sc.counts.total = Len(Survivors)
        /\ \A b \in DOMAIN SEVERITY_WEIGHTS :
             sc.counts[b] = Cardinality({i \in 1..Len(Survivors) : Survivors[i].severity = b})
        /\ Len(sc.failReasons) = Cardinality(Blocking)
        /\ \A f \in Findings :
             Cardinality(ReasonsNaming(f)) = Cardinality({i \in Blocking : Survivors[i] = f})
        /\ sc.ok <=> (sc.failReasons = <<>>)
        /\ response.isError <=> ~sc.ok

\* an audit that passes although an ignored finding meets the threshold
C9_Witness ==
    /\ Scanned
    /\ response.structuredContent.ok
    /\ Len(response.structuredContent.findings) = 1
    /\ Len(response.structuredContent.ignored) = 1
    /\ meetsSeverityThreshold(response.structuredContent.ignored[1].severity, Threshold)

----------------------------------------------------------------------------
(* Properties of the ignore-rule resolution *)

\* the rules of the four sources of the request
ConfigInlineRules ==
    LET ids == TrimmedIds(defaults.ignore.ids) \o TrimmedIds(defaults.ignoreIds)
    IN  [i \in 1..Len(ids) |-> InlineRule(ids[i])]

ConfigFileRules ==
    (IF defaults.ignore.file # "" THEN loadIgnoreRules(defaults.ignore.file) ELSE <<>>)
    \o (IF defaults.ignoreFile # "" THEN loadIgnoreRules(defaults.ignoreFile) ELSE <<>>)

RuntimeFileRules ==
    IF args.ignoreFile # "" THEN loadIgnoreRules(args.ignoreFile) ELSE <<>>

RuntimeInlineRules ==
    LET ids == TrimmedIds(args.ignoreIds) IN [i \in 1..Len(ids) |-> InlineRule(ids[i])]

\* the rule that stands last in a list among those with the given merge key
LastWithKey(list, key) ==
    list[CHOOSE n \in 1..Len(list) :
            /\ MergeKey(list[n]) = key
            /\ \A m \in n + 1..Len(list) : MergeKey(list[m]) # key]

\* the resolved rules are the last-write-wins merge of the rules in list:
\* one rule for each merge key of the list, the one that stands last
MergedFrom(list) ==
    /\ {MergeKey(ignoreRules[n]) : n \in 1..Len(ignoreRules)}
           = {MergeKey(list[n]) : n \in 1..Len(list)}
    /\ \A n, m \in 1..Len(ignoreRules) :
           MergeKey(ignoreRules[n]) = MergeKey(ignoreRules[m]) => n = m
    /\ \A n \in 1..Len(ignoreRules) :
           ignoreRules[n] = LastWithKey(list, MergeKey(ignoreRules[n]))

\* C10 as stated: the sources are merged in the order config inline ids,
\* config ignore file, runtime ignore file, runtime inline ids, and for each
\* merge key the rule of the later source survives.
C10_AsStated ==
    pc = "resolved" =>
        MergedFrom(ConfigInlineRules \o ConfigFileRules \o RuntimeFileRules
                   \o RuntimeInlineRules)

\* C10 amended: the sources are merged in the order config ignore files,
\* runtime ignore file, config inline ids, runtime inline ids, and for each
\* merge key the rule of the later source survives.
C10_InlineIdsLast ==
    pc = "resolved" =>
        MergedFrom(ConfigFileRules \o RuntimeFileRules \o ConfigInlineRules
                   \o RuntimeInlineRules)

\* a config inline id replaces the runtime file's rule for the same advisory,
\* and with it the rule's expiry and reason
C10_Witness ==
    /\ pc = "resolved"
    /\ defaults.ignoreIds = <<Adv1Padded>>
    /\ args.ignoreFile = "runtime.json"
    /\ \E n \in 1..Len(RuntimeFileRules) :
         /\ MergeKey(RuntimeFileRules[n]) = MergeKey(InlineRule(Adv1))
         /\ RuntimeFileRules[n].expiresAt # <<>>
    /\ \E n \in 1..Len(ignoreRules) : ignoreRules[n] = InlineRule(Adv1)

----------------------------------------------------------------------------
(* Properties of applyIgnoreRules *)

\* applyIgnoreRules has returned
Applied == pc = "applied"

\* how often a value occurs in a list
Count(list, x) == Cardinality({n \in 1..Len(list) : list[n] = x})

\* the warnings of a result that name a finding's id and package
WarningsNaming(result, f) ==
    {n \in 1..Len(result.warnings) :
        result.warnings[n].id = f.id /\ result.warnings[n].packageName = f.packageName}

\* the rules with their fields trimmed, those with a blank id left out
UsableRules == NormaliseRules(ignoreRules)

\* whether two texts are equal up to the case of their letters
SameIgnoringCase(a, b) == toLowerCase(a) = toLowerCase(b)

\* the matching rule as the claims state it
Covers(rule, f) ==
    /\ SameIgnoringCase(rule.id, f.id)
    /\ (rule.packageName = <<>> \/ SameIgnoringCase(rule.packageName, f.packageName))

\* the positions of the rules that cover a finding
Covering(f) == {n \in 1..Len(UsableRules) : Covers(UsableRules[n], f)}

\* the rule selected for a finding: the first that covers it
Selected(f) == UsableRules[CHOOSE n \in Covering(f) : \A m \in Covering(f) : n <= m]

\* the rule has an expiry that parses to a time before now
PastExpiry(rule) ==
    /\ rule.expiresAt # <<>>
    /\ DateTime(rule.expiresAt).finite
    /\ DateTime(rule.expiresAt).time < Now

\* C11: a finding whose selected rule has a parseable expiry in the past
\* stays in the returned findings, is not ignored, and gets exactly one
\* warning naming its id and package; a finding whose selected rule has no
\* expiry, or one that is not in the past, is moved to ignored and gets no
\* warning.
C11_ExpiredRuleKeeps ==
    Applied =>
        LET result == response.structuredContent IN
        \A f \in Findings :
            Covering(f) # {} =>
                IF PastExpiry(Selected(f))
                THEN /\ Count(result.findings, f) = Count(scan.findings, f)
                     /\ Count(result.ignored, f) = 0
                     /\ Cardinality(WarningsNaming(result, f)) = Count(scan.findings, f)
                ELSE /\ Count(result.ignored, f) = Count(scan.findings, f)
                     /\ Count(result.findings, f) = 0
                     /\ WarningsNaming(result, f) = {}

\* one finding kept with its warning under an expired rule, another ignored
\* under a rule whose expiry is not a date
C11_Witness ==
    /\ Applied
    /\ Len(scan.findings) = 2
    /\ \E f, g \in Findings :
         /\ Covering(f) # {} /\ PastExpiry(Selected(f))
         /\ Covering(g) # {} /\ Selected(g).expiresAt # <<>> /\ ~PastExpiry(Selected(g))
         /\ response.structuredContent.findings = <<f>>
         /\ response.structuredContent.ignored = <<g>>
         /\ Len(response.structuredContent.warnings) = 1

\* C12: a finding is taken out of the pass-through findings (ignored, or
\* kept with an expiry warning) exactly when some rule has its id, up to
\* case, and either no package filter or its package name, up to case; so a
\* rule with a package filter never suppresses the same id in another
\* package, and a rule without one matches the id in every package.
C12_MatchByIdAndPackage ==
    Applied =>
        LET result == response.structuredContent IN
        \A n \in 1..Len(scan.findings) :
            LET f == scan.findings[n] IN
            /\ (Covering(f) # {}) <=>
                   (Count(result.ignored, f) > 0 \/ WarningsNaming(result, f) # {})
            /\ (Covering(f) = {}) <=>
                   (Count(result.findings, f) > 0 /\ WarningsNaming(result, f) = {})

\* one rule with a package filter, written in another case than the
\* finding: the finding in that package is ignored, the same advisory in
\* another package passes through
C12_Witness ==
    /\ Applied
    /\ ignoreRules = <<Rule(<<"G", "2">>, PkgLeft, <<"2", "9", "9", "9">>, <<>>)>>
    /\ response.structuredContent.ignored = <<Finding(Adv2, <<"L", "P">>, "high")>>
    /\ response.structuredContent.findings = <<Finding(Adv2, PkgUuid, "unknown")>>

\* what happens to a finding in a result: it is ignored, kept with a
\* warning, or passed through
Fate(result, f) ==
    IF Count(result.ignored, f) > 0 THEN "ignored"
    ELSE IF WarningsNaming(result, f) # {} THEN "warned"
    ELSE "passed"

\* C26: the outcome for a finding is that of the first rule of the list that
\* matches it, as if that rule were the only one: the rules after it change
\* nothing for the finding, also when the first matching rule is expired and
\* a later matching rule is not.
C26_FirstRuleDecides ==
    Applied =>
        LET result == response.structuredContent IN
        \A n \in 1..Len(scan.findings) :
            LET f == scan.findings[n] IN
            Covering(f) # {} =>
                /\ Fate(result, f) = Fate(applyIgnoreRules(<<f>>, <<Selected(f)>>), f)
                /\ Fate(result, f) = IF PastExpiry(Selected(f)) THEN "warned" ELSE "ignored"
                /\ Count(result.findings, f) + Count(result.ignored, f)
                       = Count(scan.findings, f)

\* an expired rule for an advisory in one package, followed by a rule for
\* the advisory in every package that is not expired: the finding is kept
\* with the warning of the first
C26_Witness ==
    /\ Applied
    /\ ignoreRules = <<Rule(Adv2, PkgUuid, <<"2", "0", "2", "0">>, <<>>),
                       Rule(Adv2, <<>>, <<"?">>, <<>>)>>
    /\ scan.findings = <<Finding(Adv2, PkgUuid, "unknown")>>
    /\ Cardinality(Covering(scan.findings[1])) = 2
    /\ response.structuredContent.findings = scan.findings
    /\ response.structuredContent.ignored = <<>>
    /\ Len(response.structuredContent.warnings) = 1

\* the elements of a list at the positions of a set, in the order of the list
RECURSIVE AtPositions(_, _, _)
AtPositions(list, positions, from) ==
    IF from > Len(list) THEN <<>>
    ELSE (IF from \in positions THEN <<list[from]>> ELSE <<>>)
         \o AtPositions(list, positions, from + 1)

\* the positions of the findings scanned whose first matching rule is expired
KeptAsExpired ==
    {n \in 1..Len(scan.findings) :
        Covering(scan.findings[n]) # {} /\ PastExpiry(Selected(scan.findings[n]))}

\* C28: applyIgnoreRules splits its input: the positions of the input fall
\* into two sets, the returned findings are the input at the positions of the
\* one and the ignored findings the input at the positions of the other,
\* each in input order, so that nothing is added, lost or repeated; there is
\* one warning for each finding kept because of an expired rule; without
\* rules all findings are returned, none is ignored and there is no warning.
C28_Partition ==
    Applied =>
        LET result == response.structuredContent
            all == 1..Len(scan.findings)
        IN  /\ \E kept \in SUBSET all :
                  /\ result.findings = AtPositions(scan.findings, kept, 1)
                  /\ result.ignored = AtPositions(scan.findings, all \ kept, 1)
            /\ Len(result.findings) + Len(result.ignored) = Len(scan.findings)
            /\ Len(result.warnings) = Cardinality(KeptAsExpired)
            /\ ignoreRules = <<>> =>
                   /\ result.findings = scan.findings
                   /\ result.ignored = <<>>
                   /\ result.warnings = <<>>

\* two findings, the first ignored and the second kept under an expired
\* rule, with its warning
C28_Witness ==
    /\ Applied
    /\ Len(scan.findings) = 2
    /\ response.structuredContent.ignored = <<scan.findings[1]>>
    /\ response.structuredContent.findings = <<scan.findings[2]>>
    /\ KeptAsExpired = {2}
    /\ Len(response.structuredContent.warnings) = 1

----------------------------------------------------------------------------
(* Properties of mergeIgnoreRules *)

\* the rules of all sets, in argument order
RECURSIVE Concat(_)
Concat(lists) == IF lists = <<>> THEN <<>> ELSE Head(lists) \o Concat(Tail(lists))

\* the entries given to mergeIgnoreRules that have an id
Given == SelectSeq(Concat(ruleSets), LAMBDA entry : entry.id # <<>>)

\* the key of a rule: UPPER(id) and lower(packageName), or '*' without one
KeyOf(rule) ==
    <<toUpperCase(rule.id),
      IF rule.packageName = <<>> THEN <<"*">> ELSE toLowerCase(rule.packageName)>>

\* the last entry given with a key
LastGiven(key) ==
    Given[CHOOSE n \in 1..Len(Given) :
             /\ KeyOf(Given[n]) = key
             /\ \A m \in n + 1..Len(Given) : KeyOf(Given[m]) # key]

\* C13: the result of mergeIgnoreRules holds exactly one rule for each key
\* occurring among the entries with an id, that rule is the entry given last
\* with the key, with all its fields, and entries without id are dropped.
C13_LastSetWins ==
    pc = "merged" =>
        /\ {KeyOf(ignoreRules[n]) : n \in 1..Len(ignoreRules)}
               = {KeyOf(Given[n]) : n \in 1..Len(Given)}
        /\ \A n, k \in 1..Len(ignoreRules) :
               KeyOf(ignoreRules[n]) = KeyOf(ignoreRules[k]) => n = k
        /\ \A n \in 1..Len(ignoreRules) :
               /\ ignoreRules[n].id # <<>>
               /\ ignoreRules[n] = LastGiven(KeyOf(ignoreRules[n]))

\* mergeIgnoreRules([{id: 'g1'}], [{id: 'G1', expiresAt, reason}]) yields
\* the second rule alone, and an entry without id given after it is dropped
C13_Witness ==
    /\ pc = "merged"
    /\ Len(ruleSets) = 3
    /\ ruleSets[1] = << Rule(Adv1, <<>>, <<>>, <<>>) >>
    /\ ruleSets[2] = << Rule(<<"G", "1">>, <<>>, <<"2", "9", "9", "9">>, <<"r">>) >>
    /\ \E n \in 1..Len(ruleSets[3]) : ruleSets[3][n].id = <<>>
    /\ ignoreRules[1] = Rule(<<"G", "1">>, <<>>, <<"2", "9", "9", "9">>, <<"r">>)
    /\ Len(ignoreRules) = 2

----------------------------------------------------------------------------
(* Properties of the error handling of the audits *)

\* a security tool call has been answered, with a report or with an error
SecurityAnswered == pc = "done" /\ response.tool = "security"

\* the failOnUnscanned setting of the request served
FailOnUnscanned == MergedArgs(defaults, args).failOnUnscanned = "true"

\* the response to a call that found no findings under failOnUnscanned
NothingScanned == ErrorResponse("security", "No scanners produced results")

\* C14 as stated: when the advisory provider fails, the security audit stops
\* and returns an error-flagged response carrying the provider's message.
C14_AsStated ==
    (SecurityAnswered /\ scan.kind = "throws") =>
        (response.isError /\ response.text = scan.message)

\* C14 amended: when the advisory provider fails, the audit goes on with no
\* findings and the provider's message as a warning: the response is a
\* report with ok = true that is not error-flagged, unless failOnUnscanned
\* is set, and then it is the 'No scanners produced results' error.
C14_ProviderFailureIsWarning ==
    (SecurityAnswered /\ scan.kind = "throws") =>
        IF FailOnUnscanned
        THEN response = NothingScanned
        ELSE /\ ~response.isError
             /\ response.structuredContent.ok
             /\ response.structuredContent.findings = <<>>
             /\ response.structuredContent.ignored = <<>>
             /\ response.structuredContent.counts = createEmptySummary
             /\ response.structuredContent.failReasons = <<>>
             /\ response.structuredContent.warnings = <<scan.message>>

\* a provider failure answered with a passing report
C14_Witness ==
    /\ SecurityAnswered
    /\ scan.kind = "throws"
    /\ ~FailOnUnscanned
    /\ ~response.isError
    /\ response.structuredContent.ok
    /\ response.structuredContent.warnings = <<"npm audit failed">>

\* a tool call answered with a report whose only problem is a policy
\* violation: the structured result holds ok = false and fail reasons
PolicyViolation ==
    /\ pc = "done"
    /\ "structuredContent" \in DOMAIN response
    /\ ~response.structuredContent.ok

\* C15 as stated: in both audits a request whose only problem is a policy
\* violation returns a response that is not error-flagged, with ok = false
\* and the fail reasons.
C15_AsStated ==
    PolicyViolation =>
        (~response.isError /\ response.structuredContent.failReasons # <<>>)

\* C15 amended: a policy violation always completes with a structured
\* result holding ok = false and the fail reasons; the licence audit does not
\* flag that response as an error, the security audit does (isError = not ok).
C15_ViolationIsReported ==
    /\ PolicyViolation => response.structuredContent.failReasons # <<>>
    /\ (pc = "done" /\ "structuredContent" \in DOMAIN response) =>
          IF response.tool = "licenses" THEN ~response.isError
          ELSE response.isError = ~response.structuredContent.ok

\* a security report with a finding at the threshold: the structured result
\* is there and the response is error-flagged
C15_Witness ==
    /\ PolicyViolation
    /\ response.tool = "security"
    /\ response.isError
    /\ Len(response.structuredContent.failReasons) = 1
    /\ Len(response.structuredContent.findings) = 1

\* C20 as stated: with failOnUnscanned set, the request fails with the 'No
\* scanners produced results' error exactly when no scanner processed the
\* target (the provider was not run, or threw); a run of the provider that
\* returned no findings is not failed.
C20_AsStated ==
    (SecurityAnswered /\ response.text \notin SecurityErrors /\ FailOnUnscanned) =>
        ((response = NothingScanned) <=> (scan.kind \in {"throws", "skipped"}))

----------------------------------------------------------------------------
(* Properties of NpmAuditProvider.run *)

\* run has returned or thrown for a process that closed
Ran == pc = "ran" /\ child.error = ""

Blank(text) == \A n \in 1..Len(text) : text[n] = " "

\* the text without the white space at its ends
Stripped(text) ==
    LET inked == {n \in 1..Len(text) : text[n] # " "}
    IN  IF inked = {} THEN <<>>
        ELSE SubSeq(text, CHOOSE n \in inked : \A m \in inked : n <= m,
                    CHOOSE n \in inked : \A m \in inked : m <= n)

----------------------------------------------------------------------------
(* Properties of loadIgnoreRules *)

\* loadIgnoreRules has returned or thrown
LoadDone == pc = "loaded"

\* the member of an entry when it is a string, trimmed; nothing otherwise
TextOf(entry, name) ==
    IF name \in DOMAIN entry.fields /\ entry.fields[name].t = "string"
    THEN Stripped(entry.fields[name].s)
    ELSE <<>>

\* an entry that yields a rule: an object whose id is a string, not blank
WellFormed(entry) ==
    /\ entry.t = "object"
    /\ "id" \in DOMAIN entry.fields
    /\ entry.fields.id.t = "string"
    /\ ~Blank(entry.fields.id.s)

\* the rules a JSON array yields: one for each well-formed entry, in order
RulesOfArray(items) ==
    LET kept == SelectSeq(items, WellFormed)
    IN  [n \in 1..Len(kept) |->
            Rule(TextOf(kept[n], "id"), TextOf(kept[n], "packageName"),
                 TextOf(kept[n], "expiresAt"), TextOf(kept[n], "reason"))]

\* C19: a missing file yields no rules and no error; a JSON array yields one
\* rule with trimmed fields for each entry that is an object with a string
\* id that is not blank, in file order, and drops the other entries; a file
\* that cannot be read or parsed raises an error naming the resolved path.
C19_LoadOutcome ==
    LoadDone =>
        /\ fileOnDisk.kind = "missing" => (~response.isError /\ ignoreRules = <<>>)
        /\ (fileOnDisk.kind = "json" /\ fileOnDisk.data.t = "array") =>
               (~response.isError /\ ignoreRules = RulesOfArray(fileOnDisk.data.items))
        /\ fileOnDisk.kind \in {"unreadable", "invalid"} =>
               /\ response.isError
               /\ response.text.path =
                      (IF args.ignoreFile = "/etc/ignore.json" THEN <<"/etc/ignore.json">>
                       ELSE <<"/cwd", args.ignoreFile>>)

\* an array of a value that is no object and a padded rule: one rule, trimmed,
\* its blank reason left out
C19_Witness ==
    /\ LoadDone
    /\ fileOnDisk.kind = "json"
    /\ fileOnDisk.data.t = "array"
    /\ Len(fileOnDisk.data.items) = 2
    /\ fileOnDisk.data.items[1] = JNull
    /\ ignoreRules = <<Rule(Adv1, PkgLeft, <<"2", "0", "2", "0">>, <<>>)>>

----------------------------------------------------------------------------
(* Properties of the Config store *)

\* what the accessors of a Config with this heap return, as data
ConfigData(h) ==
    [licenses |-> BucketsOf(h),
     resources |-> ValueAt(h, Roots.resources),
     instructions |-> ValueAt(h, Roots.instructions),
     profile |-> ValueAt(h, Roots.profileData),
     detection |-> ValueAt(h, Roots.detectionBuckets),
     tools |-> ValueAt(h, Roots.toolConfigs)]

\* C17 as stated: whatever a caller does to the values the accessors
\* returned (adding or removing elements, changing fields of a returned entry
\* or settings object), the accessors of the Config return the same data as
\* before.
C17_AsStated == ConfigData(heap) = ConfigData(ConstructedHeap)

\* the ids of a bucket, upper-cased as the policy index does
UpperIds(category) ==
    {normalizeLicenseId(licenses[category][n].id) : n \in 1..Len(licenses[category])}

\* C18 as stated: each licence, identified by its normalized upper-cased id,
\* is held in at most one of the three buckets.
C18_AsStated ==
    \A c, d \in LicenseCategories : c # d => UpperIds(c) \cap UpperIds(d) = {}

\* the entries of a list with the id
WithId(list, id) == {n \in 1..Len(list) : list[n].id = id}

\* C18 amended: a call of Config.license changes the named bucket only; there
\* it replaces the first entry whose id equals the trimmed id, case included,
\* or appends the entry when the bucket has none, so that the call adds no
\* second entry with an id; the other buckets are not looked at, and the
\* same licence can be held in several buckets.
C18_OnePerBucket ==
    [][\A c \in LicenseCategories :
          \/ licenses'[c] = licenses[c]
          \/ /\ \A d \in LicenseCategories \ {c} : licenses'[d] = licenses[d]
             /\ \E n \in 1..Len(licenses'[c]) :
                   LET id == licenses'[c][n].id
                   IN  /\ id = Stripped(id) /\ id # <<>>
                       /\ \A k \in 1..Len(licenses[c]) : k # n => licenses'[c][k] = licenses[c][k]
                       /\ IF WithId(licenses[c], id) = {}
                          THEN n = Len(licenses[c]) + 1 /\ Len(licenses'[c]) = n
                          ELSE /\ Len(licenses'[c]) = Len(licenses[c])
                               /\ \A k \in WithId(licenses[c], id) : n <= k]_vars

\* the same id approved and prohibited, and in one bucket in both cases
C18_Witness ==
    /\ \E n \in 1..Len(licenses.green) : licenses.green[n].id = MIT
    /\ \E n \in 1..Len(licenses.red) : licenses.red[n].id = MIT
    /\ \E n \in 1..Len(licenses.red) : licenses.red[n].id = <<"m", "i", "t">>
    /\ response.tool = "Config.license"

----------------------------------------------------------------------------
(* Properties of the severity helpers *)

\* the function named has been applied to fnArgs
Called(op) == pc = "applied" /\ fnResult.op = op

\* the six severities of AdvisorySeverity
AdvisorySeverities == {"critical", "high", "medium", "low", "info", "unknown"}

\* C21 as stated: normaliseSeverity maps every input to one of critical,
\* high, medium, low, info, unknown; the case of the input does not matter,
\* 'moderate' gives medium and 'informational' info, an absent value gives
\* unknown, and normalising the result again returns the result.
C21_AsStated ==
    Called("normaliseSeverity") =>
        /\ fnResult.value \in AdvisorySeverities
        /\ fnResult.value = normaliseSeverity(toUpperCase(fnArgs.severity))
        /\ toLowerCase(fnArgs.severity) = Spelled["moderate"] => fnResult.value = "medium"
        /\ toLowerCase(fnArgs.severity) = Spelled["informational"] => fnResult.value = "info"
        /\ fnArgs.severity = <<>> => fnResult.value = "unknown"
        /\ normaliseSeverity(Spelled[fnResult.value]) = fnResult.value

\* the weight of a severity
Weight(severity) == SEVERITY_WEIGHTS[severity]

\* C22: meetsSeverityThreshold(s, t) is true exactly when weight(s) >=
\* weight(t) under critical 5 > high 4 > medium 3 > low 2 > info 1 >
\* unknown 0; over the six severities the relation is reflexive,
\* transitive and total, and holds both ways only between equal severities.
C22_ThresholdOrder ==
    Called("meetsSeverityThreshold") =>
        LET s == fnArgs.severity
            t == fnArgs.threshold
        IN  /\ <<Weight("critical"), Weight("high"), Weight("medium"), Weight("low"),
                 Weight("info"), Weight("unknown")>> = <<5, 4, 3, 2, 1, 0>>
            /\ fnResult.value = (Weight(s) >= Weight(t))
            /\ s = t => fnResult.value
            /\ fnResult.value \/ meetsSeverityThreshold(t, s)
            /\ (fnResult.value /\ meetsSeverityThreshold(t, s)) => s = t
            /\ \A u \in AdvisorySeverities :
                   (fnResult.value /\ meetsSeverityThreshold(t, u))
                       => meetsSeverityThreshold(s, u)

\* a severity met a lower threshold, and another failed a higher one
C22_Witness ==
    /\ Called("meetsSeverityThreshold")
    /\ fnArgs.severity = "high"
    /\ fnArgs.threshold = "medium"
    /\ fnResult.value

\* the findings of a list with the severity
WithSeverity(findings, severity) ==
    Cardinality({n \in 1..Len(findings) : findings[n].severity = severity})

\* the list in the order p
Reordered(findings, p) == [n \in 1..Len(findings) |-> findings[p[n]]]

\* C23: each named bucket of summariseFindings holds the number of findings
\* with that severity, a severity outside the five named ones counts as
\* unknown, total is the length of the list and the sum of the six buckets,
\* every reordering of the list gives the same summary, and the empty list
\* gives zero everywhere.
C23_SummaryCounts ==
    Called("summariseFindings") =>
        LET findings == fnArgs.findings
            summary == fnResult.value
            named == {"critical", "high", "medium", "low", "info"}
        IN  /\ \A severity \in named : summary[severity] = WithSeverity(findings, severity)
            /\ summary.unknown =
                   Cardinality({n \in 1..Len(findings) : findings[n].severity \notin named})
            /\ summary.total = Len(findings)
            /\ summary.total = summary.critical + summary.high + summary.medium
                                 + summary.low + summary.info + summary.unknown
            /\ \A p \in Permutations(1..Len(findings)) :
                   summariseFindings(Reordered(findings, p)) = summary
            /\ findings = <<>> => summary = createEmptySummary

\* a list of two findings of different severities, one of them outside the
\* table, has been summarised
C23_Witness ==
    /\ Called("summariseFindings")
    /\ Len(fnArgs.findings) = 2
    /\ fnArgs.findings[1].severity = "high"
    /\ fnArgs.findings[2].severity = "constructor"
    /\ fnResult.value.unknown = 1
    /\ fnResult.value.total = 2

----------------------------------------------------------------------------
(* Properties of mergeConfigs *)

\* the configs of a list that have the property
Defining(configs, key) == {n \in 1..Len(configs) : key \in DOMAIN configs[n]}

----------------------------------------------------------------------------
(* Properties of the security verdict *)

\* the fail reasons the findings reported would get at another threshold
ReasonsAt(threshold) == FailReasonsOf(response.structuredContent.findings, threshold)

\* the findings that fail reasons name
Blamed(reasons) ==
    {[id |-> reasons[n].id, packageName |-> reasons[n].packageName,
      severity |-> reasons[n].severity] : n \in 1..Len(reasons)}

\* the thresholds that weigh at least as much as the one of the request
HigherThresholds == {t \in Thresholds : SEVERITY_WEIGHTS[t] >= SEVERITY_WEIGHTS[Threshold]}

\* C29: for the surviving findings of a request, the findings that get a
\* fail reason at a threshold of higher weight are among those that get one
\* at the threshold of the request, and there are no more fail reasons; so
\* an audit that passes passes at every threshold of higher weight.
C29_MonotoneInThreshold ==
    Scanned =>
        LET sc == response.structuredContent IN
        \A t \in HigherThresholds :
            LET reasons == ReasonsAt(t) IN
            /\ Blamed(reasons) \subseteq Blamed(sc.failReasons)
            /\ Len(reasons) <= Len(sc.failReasons)
            /\ sc.ok => reasons = <<>>

\* an audit of two findings that fails at its threshold and passes at the
\* thresholds above it
C29_Witness ==
    /\ Scanned
    /\ Threshold = "low"
    /\ ~response.structuredContent.ok
    /\ Len(response.structuredContent.findings) = 2
    /\ ReasonsAt("medium") = <<>>
    /\ ReasonsAt("critical") = <<>>

\* the reported findings of unknown severity
UnknownSurvivors ==
    {i \in 1..Len(response.structuredContent.findings) :
        response.structuredContent.findings[i].severity = "unknown"}

\* C30: a surviving finding of unknown severity gets no fail reason at any
\* of the thresholds critical, high, medium, low, info; an audit whose
\* surviving findings are all of unknown severity answers ok; the findings
\* are counted in counts.unknown and counts.total.
C30_UnknownNeverFails ==
    Scanned =>
        LET sc == response.structuredContent IN
        /\ sc.findings = Survivors
        /\ Threshold \in Thresholds
        /\ \A n \in 1..Len(sc.failReasons) : sc.failReasons[n].severity # "unknown"
        /\ \A t \in Thresholds :
               \A blamed \in Blamed(ReasonsAt(t)) : blamed.severity # "unknown"
        /\ UnknownSurvivors = 1..Len(sc.findings) => sc.ok
        /\ sc.counts.unknown = Cardinality(UnknownSurvivors)
        /\ sc.counts.total = Len(sc.findings)

\* two findings of unknown severity audited at the lowest threshold
C30_Witness ==
    /\ Scanned
    /\ Threshold = "info"
    /\ Len(response.structuredContent.findings) = 2
    /\ UnknownSurvivors = {1, 2}
    /\ response.structuredContent.ok
    /\ response.structuredContent.counts.unknown = 2
    /\ response.structuredContent.counts.total = 2

----------------------------------------------------------------------------
(* Properties of the licence analysis *)

\* the component reports of the analysis with the classification, in order
ReportsClassified(c) ==
    SelectSeq(analysis.components, LAMBDA report : report.classification = c)

\* C27: in the result of analyzeWithPolicy, counts.total is the number of
\* component reports and the sum of green, yellow, red, unknown and
\* unlicensed; the red, yellow, unknown and unlicensed lists hold the
\* reports of that classification and are as long as the matching count;
\* withLicenses is total less unlicensed; the reports are in the order of
\* the SBOM entries.
C27_CountsAddUp ==
    Audited =>
        LET counts == analysis.counts IN
        /\ counts.total = Len(analysis.components)
        /\ counts.total = Len(bom)
        /\ counts.total = counts.green + counts.yellow + counts.red + counts.unknown
                            + counts.unlicensed
        /\ \A c \in {"red", "yellow", "unknown", "unlicensed"} :
               /\ analysis[c] = ReportsClassified(c)
               /\ Len(analysis[c]) = counts[c]
        /\ counts.green = Len(ReportsClassified("green"))
        /\ counts.withLicenses = counts.total - counts.unlicensed
        /\ \A i \in 1..Len(bom) :
               /\ analysis.components[i].ref = bom[i].key
               /\ analysis.components[i].licenses = bom[i].licenses
        /\ response.structuredContent.counts = counts
        /\ response.structuredContent.components = analysis.components

\* a component without licences after a prohibited one
C27_Witness ==
    /\ Audited
    /\ Len(bom) = 2
    /\ analysis.components[1].classification = "red"
    /\ analysis.components[2].classification = "unlicensed"
    /\ analysis.counts.withLicenses = 1
    /\ Len(analysis.red) = 1
    /\ Len(analysis.unlicensed) = 1

----------------------------------------------------------------------------
(* Properties of Config.license *)

\* the entries of a list whose id is the text once both are trimmed
WithTrimmedId(list, id) == {n \in 1..Len(list) : trim(list[n].id) = trim(id)}

\* no bucket holds two entries with the same trimmed id
DistinctTrimmedIds(buckets) ==
    \A c \in LicenseCategories : \A n, k \in 1..Len(buckets[c]) :
        trim(buckets[c][n].id) = trim(buckets[c][k].id) => n = k

\* C24 as stated: a call of Config.license on buckets without two entries
\* of the same trimmed id leaves them so: when the id is in the bucket the
\* entry takes the place of the one that has it, when it is not the entry
\* is appended at the end; a call that throws changes no bucket.
C24_AsStated ==
    [][DistinctTrimmedIds(licenses) =>
          /\ DistinctTrimmedIds(licenses')
          /\ response'.isError => licenses' = licenses
          /\ \A c \in LicenseCategories :
                \/ licenses'[c] = licenses[c]
                \/ \E n \in 1..Len(licenses'[c]) :
                      /\ \A k \in 1..Len(licenses[c]) :
                            k # n => licenses'[c][k] = licenses[c][k]
                      /\ IF WithTrimmedId(licenses[c], licenses'[c][n].id) = {}
                         THEN n = Len(licenses[c]) + 1 /\ Len(licenses'[c]) = n
                         ELSE /\ Len(licenses'[c]) = Len(licenses[c])
                              /\ n \in WithTrimmedId(licenses[c], licenses'[c][n].id)]_vars

====
